---- MODULE Spec2Model ----
(***************************************************************************)
(* A model of the edit history of the pinguim editor (src/history.js):     *)
(* a bounded log of text patches with a cursor, undo/redo over a text      *)
(* buffer, validated import, export and reset.                             *)
(*                                                                         *)
(* Texts are sequences of characters.  Offsets are 0-based as in the       *)
(* source; sequences are 1-based, so entry i of the source is              *)
(* entries[i + 1] here.                                                    *)
(***************************************************************************)
EXTENDS Integers, Sequences, FiniteSets, TLC

(***************************************************************************)
(* Bounds of the model.                                                    *)
(***************************************************************************)
\* largest limit given to the constructor
MaxLimit == 2
\* longest buffer text
MaxLen == 2
\* longest entries array handed to import
MaxImport == 2

\* the limit used when the constructor gets none
DefaultLimit == 5000

Min(a, b) == IF a < b THEN a ELSE b
Max(a, b) == IF a > b THEN a ELSE b

(***************************************************************************)
(* Inputs.                                                                 *)
(***************************************************************************)
Alphabet == {"a", "b"}

RECURSIVE TextsOfLen(_)
TextsOfLen(n) ==
    IF n = 0 THEN {<< >>}
    ELSE {Append(t, c) : t \in TextsOfLen(n - 1), c \in Alphabet}

\* every text of at most n characters
TextsUpTo(n) == UNION {TextsOfLen(k) : k \in 0..n}

\* the actions handed to add, apply and applyRev: an insertion and a deletion
\* at the start of the text, a replacement and an insertion one character in
P1 == [start |-> 0, oldText |-> << >>, newText |-> <<"a">>]
P2 == [start |-> 1, oldText |-> <<"a">>, newText |-> <<"b">>]
P3 == [start |-> 0, oldText |-> <<"a">>, newText |-> << >>]
P4 == [start |-> 1, oldText |-> << >>, newText |-> <<"b">>]

Patches == {P1, P2, P3, P4}

NoPatch == [start |-> 0, oldText |-> << >>, newText |-> << >>]

(***************************************************************************)
(* JavaScript values handed to import, as far as its checks tell them      *)
(* apart.  A number is kept in halves, so that 3 halves is 1.5.            *)
(***************************************************************************)
Num(h) == [type |-> "number", nan |-> FALSE, halves |-> h]
NaN == [type |-> "number", nan |-> TRUE, halves |-> 0]
NotNum(t) == [type |-> t, nan |-> FALSE, halves |-> 0]

StartOf(n) == [type |-> "number", num |-> n]
TextOf(t) == [type |-> "string", text |-> t]

ItemOf(p) ==
    [type |-> "object", start |-> StartOf(p.start),
     oldText |-> TextOf(p.oldText), newText |-> TextOf(p.newText)]

\* a value that is no object: null, a string
NonObjectItem(t) ==
    [type |-> t, start |-> [type |-> "undefined", num |-> 0],
     oldText |-> [type |-> "undefined", text |-> << >>],
     newText |-> [type |-> "undefined", text |-> << >>]]

ArrayOf(items) == [type |-> "array", items |-> items]
NotArray(t) == [type |-> t, items |-> << >>]

ObjectOf(c, e) == [type |-> "object", cursor |-> c, entries |-> e]
NonObject(t) == [type |-> t, cursor |-> NotNum("undefined"), entries |-> NotArray("undefined")]

NoData == NonObject("none")

\* typeof v
TypeOf(v) == IF v.type \in {"null", "array"} THEN "object" ELSE v.type
\* v == null
IsNull(v) == v.type \in {"null", "undefined"}

RECURSIVE SeqsOfLen(_, _)
SeqsOfLen(S, n) ==
    IF n = 0 THEN {<< >>}
    ELSE {Append(q, x) : q \in SeqsOfLen(S, n - 1), x \in S}

SeqsUpTo(S, n) == UNION {SeqsOfLen(S, k) : k \in 0..n}

\* arrays of well-formed entries
ArraysOf(S, n) == {ArrayOf(q) : q \in SeqsUpTo({ItemOf(p) : p \in S}, n)}

\* the cursors in range of an array of n entries: whole, fractional, NaN
InRangeCursors(n) == {Num(h) : h \in 0..(2 * n)} \cup {NaN}

\* data with a cursor in range over an array of at most n well-formed entries
WellFormedData(S, n) ==
    UNION {{ObjectOf(c, a) : c \in InRangeCursors(Len(a.items))} : a \in ArraysOf(S, n)}

\* entries that are no object, or miss a field of the right type
NullItem == NonObjectItem("null")
StringItem == NonObjectItem("string")
BadStartItem == [ItemOf(P1) EXCEPT !.start = [type |-> "string", num |-> 0]]
BadOldTextItem == [ItemOf(P1) EXCEPT !.oldText = [type |-> "number", text |-> << >>]]
BadNewTextItem == [ItemOf(P1) EXCEPT !.newText = [type |-> "undefined", text |-> << >>]]

\* one piece of data, at least, for every way import has to reject it
MalformedData ==
    {NonObject("null"), NonObject("undefined"), NonObject("string"),
     ObjectOf(NotNum("string"), ArrayOf(<< >>)),
     ObjectOf(NotNum("undefined"), NotArray("undefined")),
     ObjectOf(Num(0), NotArray("string")),
     ObjectOf(Num(0), NotArray("null")),
     ObjectOf(Num(0), ArrayOf(<<NullItem>>)),
     ObjectOf(Num(0), ArrayOf(<<StringItem>>)),
     ObjectOf(Num(2), ArrayOf(<<ItemOf(P1), BadStartItem>>)),
     ObjectOf(Num(0), ArrayOf(<<BadOldTextItem>>)),
     ObjectOf(Num(0), ArrayOf(<<BadNewTextItem>>)),
     ObjectOf(Num(0), ArrayOf(<<BadStartItem, NullItem>>)),
     ObjectOf(Num(8), ArrayOf(<<StringItem>>)),
     ObjectOf(Num(-1), ArrayOf(<< >>)),
     ObjectOf(Num(1), ArrayOf(<< >>)),
     ObjectOf(Num(-2), ArrayOf(<<ItemOf(P1)>>)),
     ObjectOf(Num(3), ArrayOf(<<ItemOf(P1)>>)),
     ObjectOf(Num(4), ArrayOf(<<ItemOf(P2)>>))}

\* a few of each kind, for the runs that mix import with every other method
CoreImportData ==
    {ObjectOf(Num(0), ArrayOf(<< >>)),
     ObjectOf(Num(2), ArrayOf(<<ItemOf(P1)>>)),
     ObjectOf(Num(0), ArrayOf(<<ItemOf(P1), ItemOf(P2)>>)),
     ObjectOf(Num(3), ArrayOf(<<ItemOf(P1), ItemOf(P2)>>)),
     ObjectOf(NaN, ArrayOf(<<ItemOf(P2), ItemOf(P1)>>)),
     NonObject("null"),
     ObjectOf(Num(2), ArrayOf(<<ItemOf(P1), BadStartItem>>)),
     ObjectOf(Num(3), ArrayOf(<<ItemOf(P1)>>))}

\* the data handed to import
ImportData == WellFormedData({P1, P2}, MaxImport) \cup MalformedData

(***************************************************************************)
(* The patch primitives: History.apply and History.applyRev.               *)
(***************************************************************************)
\* text.substring(a, b): both offsets are clamped to the text, and swapped
\* when a is past b
SubStr(text, a, b) ==
    LET ca == Max(0, Min(a, Len(text)))
        cb == Max(0, Min(b, Len(text)))
    IN  SubSeq(text, Min(ca, cb) + 1, Max(ca, cb))

\* text.substring(a)
SubStrFrom(text, a) == SubStr(text, a, Len(text))


\* apply measuring the replaced run by the new text
ApplyValueNewLength(action, text) ==
    LET end == action.start + Len(action.newText)
        prev == SubStr(text, 0, action.start)
        next == SubStrFrom(text, end)
    IN  prev \o action.newText \o next

\* the text apply leaves in the target
ApplyValue(action, text) ==
    LET end == action.start + Len(action.oldText)
        prev == SubStr(text, 0, action.start)
        next == SubStrFrom(text, end)
    IN  prev \o action.newText \o next

\* the offset apply sets both ends of the selection to
ApplyPosition(action) == action.start + Len(action.newText)


\* applyRev measuring the replaced run by the old text
ApplyRevValueOldLength(action, text) ==
    LET end == action.start + Len(action.oldText)
        prev == SubStr(text, 0, action.start)
        next == SubStrFrom(text, end)
    IN  prev \o action.oldText \o next

\* the text applyRev leaves in the target
ApplyRevValue(action, text) ==
    LET end == action.start + Len(action.newText)
        prev == SubStr(text, 0, action.start)
        next == SubStrFrom(text, end)
    IN  prev \o action.oldText \o next


\* applyRev leaving the selection where apply would
ApplyRevPositionForward(action) == action.start + Len(action.newText)

\* the offset applyRev sets both ends of the selection to
ApplyRevPosition(action) == action.start + Len(action.oldText)

(***************************************************************************)
(* History.add on a log es with cursor c and limit lim.                    *)
(***************************************************************************)

\* add with the redo tail left in place
SpliceFromKeepsTail(es, c) == es

\* entries.splice(c): the entries from offset c on are removed
SpliceFrom(es, c) == SubSeq(es, 1, Min(c, Len(es)))

\* add chopping nothing off the start of the log
SpliceFrontNothing(es, n) == es

\* entries.splice(0, n): the first n entries are removed
SpliceFront(es, n) == SubSeq(es, Min(n, Len(es)) + 1, Len(es))


\* add chopping one entry too many
NewStartOneMore(n, lim) == IF n >= lim THEN n - lim + 1 ELSE 0

\* the number of entries add chops off the start of a log of n entries
NewStart(n, lim) == IF n >= lim THEN n - lim ELSE 0


\* add with the cursor left where it was after the chop
ShiftCursorForgotten(c, newStart) == c

\* the cursor after add chopped newStart entries off
ShiftCursor(c, newStart) == c - newStart

AddResult(es, c, action, lim) ==
    LET pushed == Append(SpliceFrom(es, c), action)
        newStart == NewStart(Len(pushed), lim)
    IN  [entries |-> SpliceFront(pushed, newStart),
         cursor |-> ShiftCursor(c + 1, newStart),
         newStart |-> newStart]

(***************************************************************************)
(* History.undo and History.redo: their guards.                            *)
(***************************************************************************)
\* no error thrown
NoError == "none"

\* undo let through at cursor 0
CanUndoAtZero(c) == c >= 0

CanUndo(c) == c > 0

\* redo stopping one entry short of the end
CanRedoButLast(c, es) == c < Len(es) - 1

CanRedo(c, es) == c < Len(es)

\* this.entries[i] is undefined: i, counted from 0, is no index of the array
Missing(es, i) == i < 0 \/ i >= Len(es)

\* applyRev(undefined, target) reads start of undefined: a TypeError
UndoError(c, es) == IF CanUndo(c) /\ Missing(es, c - 1) THEN "TypeError" ELSE NoError

\* apply(undefined, target), the same
RedoError(c, es) == IF CanRedo(c, es) /\ Missing(es, c) THEN "TypeError" ELSE NoError

(***************************************************************************)
(* History.import: the checks, in the order of the code, and the commit.   *)
(***************************************************************************)

\* the checks on one entry
EntryError(entry) ==
    IF TypeOf(entry) # "object" \/ IsNull(entry) THEN "An entry is not a valid object"
    ELSE IF TypeOf(entry.start) # "number" THEN "An entry start is not a number"
    ELSE IF TypeOf(entry.oldText) # "string" THEN "An entry oldText is not string"
    ELSE IF TypeOf(entry.newText) # "string" THEN "An entry newText is not string"
    ELSE NoError

\* the loop made in two passes: every entry checked for being an object
\* before any field of any entry is looked at
EntriesErrorObjectsFirst(items) ==
    LET bad == {i \in 1..Len(items) : EntryError(items[i]) # NoError}
        first == CHOOSE i \in bad : \A j \in bad : i <= j
    IN  IF \E i \in 1..Len(items) : TypeOf(items[i]) # "object" \/ IsNull(items[i])
        THEN "An entry is not a valid object"
        ELSE IF bad # {} THEN EntryError(items[first])
        ELSE NoError

\* the loop over the entries: the first entry that fails a check ends it
RECURSIVE EntriesError(_)
EntriesError(items) ==
    IF items = << >> THEN NoError
    ELSE IF EntryError(Head(items)) # NoError THEN EntryError(Head(items))
    ELSE EntriesError(Tail(items))

\* the upper comparison made with >= for >
CursorTooFarAtLength(c, n) == ~c.nan /\ (c.halves < 0 \/ c.halves >= 2 * n)

\* data.cursor < 0 || data.cursor > data.entries.length; false of NaN
CursorTooFar(c, n) == ~c.nan /\ (c.halves < 0 \/ c.halves > 2 * n)

\* the message of the HistoryError import throws, NoError when it throws none
ImportError(d) ==
    IF TypeOf(d) # "object" \/ IsNull(d) THEN "Data is not a valid object"
    ELSE IF TypeOf(d.cursor) # "number" THEN "Data cursor is not a number"
    ELSE IF d.entries.type # "array" THEN "Data entries are not an Array"
    ELSE IF EntriesError(d.entries.items) # NoError THEN EntriesError(d.entries.items)
    ELSE IF CursorTooFar(d.cursor, Len(d.entries.items)) THEN "Cursor is too far"
    ELSE NoError

\* c | 0: NaN becomes 0, the fraction is cut off towards zero
ToInt32(c) ==
    IF c.nan THEN 0
    ELSE IF c.halves >= 0 THEN c.halves \div 2
    ELSE -((-c.halves) \div 2)

\* the copy with the two texts of the entry taken for each other
CopyEntryTextsSwapped(item) ==
    [start |-> item.start.num, oldText |-> item.newText.text, newText |-> item.oldText.text]

\* Object.assign({}, action) on one entry
CopyEntry(item) ==
    [start |-> item.start.num, oldText |-> item.oldText.text, newText |-> item.newText.text]

\* data.entries.map(action => Object.assign({}, action))
CopyEntries(items) == [i \in 1..Len(items) |-> CopyEntry(items[i])]


\* import setting the cursor before it checks that it is in range
ImportResultCursorFirst(d, c, es) ==
    IF ImportError(d) = "Cursor is too far" THEN [cursor |-> ToInt32(d.cursor), entries |-> es]
    ELSE IF ImportError(d) # NoError THEN [cursor |-> c, entries |-> es]
    ELSE [cursor |-> ToInt32(d.cursor), entries |-> CopyEntries(d.entries.items)]

\* the cursor and entries import leaves, given those it found
ImportResult(d, c, es) ==
    IF ImportError(d) # NoError THEN [cursor |-> c, entries |-> es]
    ELSE [cursor |-> ToInt32(d.cursor), entries |-> CopyEntries(d.entries.items)]

\* the entries left in the history being the very objects of data.entries
KeptOfDataObjects == "objects"

\* what the history keeps of the data after import: map returns a new array
\* and Object.assign({}, action) a new object for each entry
KeptOfData == "nothing"

\* new History(limit): limit || 5000
LimitOf(limit) == IF limit = 0 THEN DefaultLimit ELSE limit

(***************************************************************************)
(* Regular expressions, as far as the rules of a Highlighter use them: a   *)
(* character, \b, a sequence, an alternation, a capturing group.  A match  *)
(* is tried at one position and gives the ways it can succeed in the order *)
(* in which backtracking tries them: the first is the match.               *)
(***************************************************************************)
Chr(c) == [op |-> "chr", c |-> c]
WordBoundary == [op |-> "wordb"]
Cat(l, r) == [op |-> "cat", l |-> l, r |-> r]
Alt(l, r) == [op |-> "alt", l |-> l, r |-> r]
Grp(l) == [op |-> "grp", l |-> l]

\* the number of capturing groups of a pattern
RECURSIVE Groups(_)
Groups(re) ==
    CASE re.op \in {"chr", "wordb"} -> 0
      [] re.op \in {"cat", "alt"} -> Groups(re.l) + Groups(re.r)
      [] re.op = "grp" -> 1 + Groups(re.l)

\* what a group captured: a text, or undefined when it took no part
Undefined == [defined |-> FALSE, text |-> << >>]
Captured(t) == [defined |-> TRUE, text |-> t]
Undefineds(n) == [i \in 1..n |-> Undefined]

\* \w
IsWordChar(c) == c \in {"a", "A", "b"}

\* \b at position q: a word character on one side only
AtWordBoundary(text, q) ==
    (q > 0 /\ IsWordChar(text[q])) # (q < Len(text) /\ IsWordChar(text[q + 1]))

\* the character compared under flag i, and as it stands without
Canonicalize(c, ignoreCase) == IF ignoreCase /\ c = "a" THEN "A" ELSE c

RECURSIVE Flatten(_)
Flatten(qs) == IF qs = << >> THEN << >> ELSE Head(qs) \o Flatten(Tail(qs))

\* the matches of re that start at q, each with its end and its captures
RECURSIVE Matches(_, _, _, _)
Matches(re, text, q, ignoreCase) ==
    CASE re.op = "chr" ->
           IF q < Len(text)
              /\ Canonicalize(text[q + 1], ignoreCase) = Canonicalize(re.c, ignoreCase)
           THEN <<[end |-> q + 1, captures |-> << >>]>>
           ELSE << >>
      [] re.op = "wordb" ->
           IF AtWordBoundary(text, q)
           THEN <<[end |-> q, captures |-> << >>]>>
           ELSE << >>
      [] re.op = "alt" ->
           LET ls == Matches(re.l, text, q, ignoreCase)
               rs == Matches(re.r, text, q, ignoreCase)
           IN  [i \in 1..Len(ls) |->
                   [end |-> ls[i].end,
                    captures |-> ls[i].captures \o Undefineds(Groups(re.r))]]
               \o [i \in 1..Len(rs) |->
                   [end |-> rs[i].end,
                    captures |-> Undefineds(Groups(re.l)) \o rs[i].captures]]
      [] re.op = "cat" ->
           LET ls == Matches(re.l, text, q, ignoreCase)
           IN  Flatten([i \in 1..Len(ls) |->
                   LET rs == Matches(re.r, text, ls[i].end, ignoreCase)
                   IN  [j \in 1..Len(rs) |->
                           [end |-> rs[j].end,
                            captures |-> ls[i].captures \o rs[j].captures]]])
      [] re.op = "grp" ->
           LET ls == Matches(re.l, text, q, ignoreCase)
           IN  [i \in 1..Len(ls) |->
                   [end |-> ls[i].end,
                    captures |-> <<Captured(SubSeq(text, q + 1, ls[i].end))>>
                                 \o ls[i].captures]]

\* String.prototype.split with a regular expression: the pieces between the
\* matches, and after each match what its groups captured
RECURSIVE SplitFrom(_, _, _, _, _)
SplitFrom(re, text, ignoreCase, p, q) ==
    IF q >= Len(text) THEN <<Captured(SubSeq(text, p + 1, Len(text)))>>
    ELSE LET ms == Matches(re, text, q, ignoreCase)
         IN  IF ms = << >> THEN SplitFrom(re, text, ignoreCase, p, q + 1)
             ELSE IF ms[1].end = p THEN SplitFrom(re, text, ignoreCase, p, q + 1)
             ELSE <<Captured(SubSeq(text, p + 1, q))>> \o ms[1].captures
                  \o SplitFrom(re, text, ignoreCase, ms[1].end, ms[1].end)

Split(re, text, ignoreCase) ==
    IF text = << >>
    THEN IF Matches(re, text, 0, ignoreCase) # << >> THEN << >> ELSE <<Captured(<< >>)>>
    ELSE SplitFrom(re, text, ignoreCase, 0, 0)

\* RegExp.prototype.exec from position q on: the first position at or after
\* q with a match, as <<start, end>>, or << >>
RECURSIVE Search(_, _, _, _)
Search(re, text, q, ignoreCase) ==
    IF q > Len(text) THEN << >>
    ELSE IF Matches(re, text, q, ignoreCase) # << >>
         THEN <<q, Matches(re, text, q, ignoreCase)[1].end>>
    ELSE Search(re, text, q + 1, ignoreCase)

(***************************************************************************)
(* The rules (types) a Highlighter is constructed with, by name.           *)
(***************************************************************************)
\* type.bracket === undefined
NoBracket == [name |-> "none", direction |-> "none"]

RuleNamed(name) ==
    CASE name = "open" ->       \* /\(/
           [regex |-> Chr("("), flags |-> << >>, className |-> "punctuation",
            bracket |-> [name |-> "parens", direction |-> "opening"]]
      [] name = "close" ->      \* /\)/
           [regex |-> Chr(")"), flags |-> << >>, className |-> "punctuation",
            bracket |-> [name |-> "parens", direction |-> "closing"]]
      [] name = "openG" ->      \* /\(/g
           [regex |-> Chr("("), flags |-> <<"g">>, className |-> "punctuation",
            bracket |-> [name |-> "parens", direction |-> "opening"]]
      [] name = "closeI" ->     \* /\)/i
           [regex |-> Chr(")"), flags |-> <<"i">>, className |-> "punctuation",
            bracket |-> [name |-> "parens", direction |-> "closing"]]
      [] name = "begin" ->      \* /A/
           [regex |-> Chr("A"), flags |-> << >>, className |-> "keyword",
            bracket |-> [name |-> "block", direction |-> "opening"]]
      [] name = "end" ->        \* /a/
           [regex |-> Chr("a"), flags |-> << >>, className |-> "keyword",
            bracket |-> [name |-> "block", direction |-> "closing"]]
      [] name = "letter" ->     \* /a/
           [regex |-> Chr("a"), flags |-> << >>, className |-> "letter",
            bracket |-> NoBracket]
      [] name = "pair" ->       \* /aa/
           [regex |-> Cat(Chr("a"), Chr("a")), flags |-> << >>, className |-> "pair",
            bracket |-> NoBracket]
      [] name = "upper" ->      \* /A/
           [regex |-> Chr("A"), flags |-> << >>, className |-> "upper",
            bracket |-> NoBracket]
      [] name = "word" ->       \* /\ba\b/
           [regex |-> Cat(WordBoundary, Cat(Chr("a"), WordBoundary)), flags |-> << >>,
            className |-> "word", bracket |-> NoBracket]
      [] name = "call" ->       \* /(a)\(/
           [regex |-> Cat(Grp(Chr("a")), Chr("(")), flags |-> << >>,
            className |-> "call", bracket |-> NoBracket]

\* the names of the bracket groups
BracketNames == {"parens", "block"}

(***************************************************************************)
(* Highlighter.constructor: the regular expression highlight splits with.  *)
(***************************************************************************)
\* the first alternative taken for the whole
AlternativesFirstOnly(ts) == Grp(RuleNamed(ts[1]).regex)

\* alternatives.join('|'), each alternative being '(' + source + ')'
RECURSIVE Alternatives(_)
Alternatives(ts) ==
    IF Len(ts) = 1 THEN Grp(RuleNamed(ts[1]).regex)
    ELSE Alt(Grp(RuleNamed(ts[1]).regex), Alternatives(Tail(ts)))

\* the flags of all the types, each once, in the order met
RECURSIVE AddFlags(_, _)
AddFlags(flags, more) ==
    IF more = << >> THEN flags
    ELSE AddFlags(IF \E i \in 1..Len(flags) : flags[i] = Head(more)
                  THEN flags ELSE Append(flags, Head(more)),
                  Tail(more))

RECURSIVE Flags(_)
Flags(ts) ==
    IF ts = << >> THEN << >>
    ELSE AddFlags(Flags(SubSeq(ts, 1, Len(ts) - 1)), RuleNamed(ts[Len(ts)]).flags)

HasFlag(flags, flag) == \E i \in 1..Len(flags) : flags[i] = flag

\* the pieces that are '' kept with the others
RECURSIVE KeptEmptyToo(_)
KeptEmptyToo(pieces) ==
    IF pieces = << >> THEN << >>
    ELSE IF ~Head(pieces).defined THEN KeptEmptyToo(Tail(pieces))
    ELSE <<Head(pieces).text>> \o KeptEmptyToo(Tail(pieces))

\* baseText.split(this.splitRegex), less the pieces that are undefined or ''
RECURSIVE Kept(_)
Kept(pieces) ==
    IF pieces = << >> THEN << >>
    ELSE IF ~Head(pieces).defined \/ Head(pieces).text = << >> THEN Kept(Tail(pieces))
    ELSE <<Head(pieces).text>> \o Kept(Tail(pieces))

Pieces(ts, text) == Kept(Split(Alternatives(ts), text, HasFlag(Flags(ts), "i")))

(***************************************************************************)
(* Highlighter.highlight: the loop over the pieces.                        *)
(***************************************************************************)
\* type.regex.test(piece) with lastIndex at li: whether it matches, and the
\* lastIndex it leaves; only a regex with flag g reads and writes lastIndex
Test(name, piece, li) ==
    LET type == RuleNamed(name)
        global == HasFlag(type.flags, "g")
        found == Search(type.regex, piece, IF global THEN li ELSE 0, HasFlag(type.flags, "i"))
    IN  [matches |-> found # << >>,
         lastIndex |-> IF ~global THEN li ELSE IF found = << >> THEN 0 ELSE found[2]]

\* this.types.find(type => type.regex.test(piece)): the position of the first
\* type that matches, 0 for undefined, and lastIndex of every type after it
RECURSIVE Find(_, _, _, _)
Find(ts, k, piece, lis) ==
    IF k > Len(ts) THEN [type |-> 0, lastIndex |-> lis]
    ELSE LET t == Test(ts[k], piece, lis[k])
         IN  IF t.matches THEN [type |-> k, lastIndex |-> [lis EXCEPT ![k] = t.lastIndex]]
             ELSE Find(ts, k + 1, piece, [lis EXCEPT ![k] = t.lastIndex])

\* the nodes highlight creates; type is the place, among the types, of the
\* type found for the piece, 0 when none was
TextNode(piece) == [kind |-> "text", text |-> piece, class |-> << >>, type |-> 0]
Span(piece, className, k) == [kind |-> "span", text |-> piece, class |-> <<className>>, type |-> k]
Br == [kind |-> "br", text |-> << >>, class |-> << >>, type |-> 0]

\* setAttribute('class', cls + ' selected-bracket')
Selected(node) == [node EXCEPT !.class = Append(@, "selected-bracket")]

\* the comparison of selectionEnd made with < for <=
IsSelectedShortOfEnd(start, end, index, piece) == start = index /\ end < index + Len(piece)

\* selectionStart == index && selectionEnd <= index + piece.length
IsSelected(start, end, index, piece) == start = index /\ end <= index + Len(piece)

\* the bottom of the stack taken for its top
PopBottom(stack) ==
    IF stack = << >> THEN [defined |-> FALSE, node |-> 0, selected |-> FALSE]
    ELSE [defined |-> TRUE, node |-> stack[1].node, selected |-> stack[1].selected]

\* brackets[name].pop(): the top of the stack, undefined when it is empty
Pop(stack) ==
    IF stack = << >> THEN [defined |-> FALSE, node |-> 0, selected |-> FALSE]
    ELSE [defined |-> TRUE, node |-> stack[Len(stack)].node,
          selected |-> stack[Len(stack)].selected]

\* the test made without asking whether prev is undefined: reading selected
\* of undefined is a TypeError
PairSelectedUnguarded(prev, isSelected) ==
    [selected |-> prev.defined /\ (prev.selected \/ isSelected),
     error |-> IF prev.defined THEN NoError ELSE "TypeError"]

\* the pair marked wherever the cursor is
PairSelectedAnywhere(prev, isSelected) ==
    [selected |-> prev.defined, error |-> NoError]

\* prev !== undefined && (prev.selected || isSelected): whether the pair is
\* to be marked, and the error of the test, which reads nothing of an
\* undefined prev
PairSelected(prev, isSelected) ==
    [selected |-> prev.defined /\ (prev.selected \/ isSelected), error |-> NoError]

\* handleParens adding the mark to the closing child alone
HandleParensMarksCloserOnly(start, end, piece, type, brackets, index, child, nodes) ==
    LET isSelected == IsSelected(start, end, index, piece)
        name == type.bracket.name
        stack == brackets[name]
    IN  IF type.bracket.direction = "opening"
        THEN [brackets |-> [brackets EXCEPT ![name] =
                               Append(stack, [node |-> Len(nodes) + 1, selected |-> isSelected])],
              children |-> Append(nodes, child), error |-> NoError]
        ELSE IF type.bracket.direction = "closing"
        THEN LET popped == [brackets EXCEPT ![name] = SubSeq(stack, 1, Len(stack) - 1)]
                 prev == Pop(stack)
                 pair == PairSelected(prev, isSelected)
             IN  IF pair.error # NoError
                 THEN [brackets |-> popped, children |-> nodes, error |-> pair.error]
                 ELSE IF pair.selected
                 THEN [brackets |-> popped, children |-> Append(nodes, Selected(child)),
                       error |-> NoError]
                 ELSE [brackets |-> popped, children |-> Append(nodes, child),
                       error |-> NoError]
        ELSE [brackets |-> brackets, children |-> Append(nodes, child), error |-> NoError]

\* handleParens keeping one stack for the brackets of every group
HandleParensOneStack(start, end, piece, type, brackets, index, child, nodes) ==
    LET isSelected == IsSelected(start, end, index, piece)
        name == "parens"
        stack == brackets[name]
    IN  IF type.bracket.direction = "opening"
        THEN [brackets |-> [brackets EXCEPT ![name] =
                               Append(stack, [node |-> Len(nodes) + 1, selected |-> isSelected])],
              children |-> Append(nodes, child), error |-> NoError]
        ELSE IF type.bracket.direction = "closing"
        THEN LET popped == [brackets EXCEPT ![name] = SubSeq(stack, 1, Len(stack) - 1)]
                 prev == Pop(stack)
                 pair == PairSelected(prev, isSelected)
             IN  IF pair.selected
                 THEN [brackets |-> popped,
                       children |-> Append([nodes EXCEPT ![prev.node] = Selected(@)],
                                           Selected(child)),
                       error |-> NoError]
                 ELSE [brackets |-> popped, children |-> Append(nodes, child),
                       error |-> NoError]
        ELSE [brackets |-> brackets, children |-> Append(nodes, child), error |-> NoError]

\* handleParens for the child about to be appended: the brackets and the
\* children it leaves, the child among them unless an error was thrown
\* before it could be appended
HandleParens(start, end, piece, type, brackets, index, child, nodes) ==
    LET isSelected == IsSelected(start, end, index, piece)
        name == type.bracket.name
        stack == brackets[name]
    IN  IF type.bracket.direction = "opening"
        THEN [brackets |-> [brackets EXCEPT ![name] =
                               Append(stack, [node |-> Len(nodes) + 1, selected |-> isSelected])],
              children |-> Append(nodes, child), error |-> NoError]
        ELSE IF type.bracket.direction = "closing"
        THEN LET popped == [brackets EXCEPT ![name] = SubSeq(stack, 1, Len(stack) - 1)]
                 prev == Pop(stack)
                 pair == PairSelected(prev, isSelected)
             IN  IF pair.error # NoError
                 THEN [brackets |-> popped, children |-> nodes, error |-> pair.error]
                 ELSE IF pair.selected
                 THEN [brackets |-> popped,
                       children |-> Append([nodes EXCEPT ![prev.node] = Selected(@)],
                                           Selected(child)),
                       error |-> NoError]
                 ELSE [brackets |-> popped, children |-> Append(nodes, child),
                       error |-> NoError]
        ELSE [brackets |-> brackets, children |-> Append(nodes, child), error |-> NoError]

RECURSIVE HighlightLoop(_, _, _, _, _, _, _, _)

\* the loop after handleParens returned h for a piece: an error it threw
\* ends the loop, the regexes as the search for the type left them
AfterParens(ts, rest, start, end, index, lis, h) ==
    IF h.error # NoError
    THEN [children |-> h.children, lastIndex |-> lis, error |-> h.error]
    ELSE HighlightLoop(ts, rest, start, end, index, h.brackets, lis, h.children)

\* the loop after the search for the type of the first piece returned found:
\* a text node when no type matches, a span otherwise, handed to
\* handleParens when the type is a bracket
AfterFind(ts, pieces, start, end, index, brackets, nodes, found) ==
    LET piece == Head(pieces)
    IN  IF found.type = 0
        THEN HighlightLoop(ts, Tail(pieces), start, end, index + Len(piece),
                           brackets, found.lastIndex, Append(nodes, TextNode(piece)))
        ELSE LET type == RuleNamed(ts[found.type])
                 child == Span(piece, type.className, found.type)
             IN  IF type.bracket = NoBracket
                 THEN HighlightLoop(ts, Tail(pieces), start, end, index + Len(piece),
                                    brackets, found.lastIndex, Append(nodes, child))
                 ELSE AfterParens(ts, Tail(pieces), start, end, index + Len(piece),
                                  found.lastIndex,
                                  HandleParens(start, end, piece, type, brackets,
                                               index, child, nodes))

\* the body of the loop, piece after piece; an error thrown ends it
HighlightLoop(ts, pieces, start, end, index, brackets, lis, nodes) ==
    IF pieces = << >> THEN [children |-> nodes, lastIndex |-> lis, error |-> NoError]
    ELSE AfterFind(ts, pieces, start, end, index, brackets, nodes,
                   Find(ts, 1, Head(pieces), lis))

\* targetElement.appendChild(document.createElement('br')), which an error
\* thrown in the loop leaves undone
WithBr(r) ==
    [children |-> IF r.error = NoError THEN Append(r.children, Br) ELSE r.children,
     lastIndex |-> r.lastIndex, error |-> r.error]

\* highlight(inputElement, targetElement): the children of the target, the
\* closing <br> last unless an error ended the loop, the lastIndex of the
\* regex of every type, and the error thrown
HighlightResult(ts, text, start, end, lis) ==
    WithBr(HighlightLoop(ts, Pieces(ts, text), start, end, 0,
                         [name \in BracketNames |-> << >>], lis, << >>))

(***************************************************************************)
(* The state.                                                              *)
(***************************************************************************)
VARIABLES
    limit,            \* History.limit
    cursor,           \* History.cursor
    entries,          \* History.entries
    value,            \* target.value, the text of the buffer
    selectionStart,   \* target.selectionStart
    selectionEnd,     \* target.selectionEnd
    exported,         \* the object export returned last, as its caller holds it
    op,               \* the method called last
    patch,            \* the action it was given (add, apply, applyRev)
    data,             \* the data it was given (import)
    err,              \* the message of the error it threw
    acted,            \* whether it took the branch that changes something
    evicted,          \* the entries it chopped off the start (add)
    run,              \* a run of adds, then undos, then redos, as it stands
    given,            \* the data import was given last, as its caller holds it
    types,            \* Highlighter.types, by name
    lastIndex,        \* lastIndex of the regex of each type
    children,         \* the child nodes of the target element of highlight
    prevState,        \* Editor.prevState
    savedCode,        \* the string saveCode was given last
    display,          \* what the line and column spans show, scrollTop of the pre
    loaded            \* what loadCodeHist and loadCode gave to the last load

hist == <<cursor, entries>>
buf == <<value, selectionStart, selectionEnd>>
call == <<op, patch, data, err, acted, evicted>>
highlighter == <<types, lastIndex, children>>
editor == <<prevState, savedCode, display, loaded>>
aside == <<given, highlighter, editor>>
vars == <<limit, cursor, entries, value, selectionStart, selectionEnd, exported,
          op, patch, data, err, acted, evicted, run, given, types, lastIndex, children,
          prevState, savedCode, display, loaded>>

\* nothing exported yet
NoExport == [cursor |-> 0, aliased |-> FALSE, entries |-> << >>, held |-> FALSE]

\* the entries array of the exported object: the array of the history itself
\* as long as the history has not replaced its own
ExportedEntries == IF exported.aliased THEN entries ELSE exported.entries

\* no data imported yet
NoGiven == [held |-> FALSE, kept |-> "nothing", cursor |-> Num(0), items |-> << >>]

\* prevState as the constructor of Editor sets it
NoPrevState == [selectionStart |-> 0, selectionEnd |-> 0, content |-> << >>]

\* saveCode not called yet
NoCode == [saved |-> FALSE, text |-> << >>]

\* the spans and the pre of the page as it is loaded
NoDisplay == [line |-> 0, column |-> 0, scrollTop |-> 0]

\* load not called yet
NoLoaded == [thrown |-> NoError, data |-> NoData, code |-> NoCode]

\* no run under way
NoRun ==
    [phase |-> "idle", n |-> 0, undone |-> 0, redone |-> 0,
     before |-> << >>, after |-> << >>, fits |-> TRUE, added |-> << >>]

Called(name, p, d, e, a, n) ==
    /\ op' = name
    /\ patch' = p
    /\ data' = d
    /\ err' = e
    /\ acted' = a
    /\ evicted' = n

\* this.entries = <a new array>: the exported object keeps the old one
Detach ==
    exported' = IF exported.aliased
                THEN [exported EXCEPT !.aliased = FALSE, !.entries = entries]
                ELSE exported

Init ==
    /\ \E l \in 0..MaxLimit : limit = LimitOf(l)
    /\ cursor = 0
    /\ entries = << >>
    /\ value \in TextsUpTo(MaxLen)
    /\ selectionStart = 0
    /\ selectionEnd = 0
    /\ exported = NoExport
    /\ op = "new"
    /\ patch = NoPatch
    /\ data = NoData
    /\ err = NoError
    /\ acted = FALSE
    /\ evicted = 0
    /\ run = NoRun
    /\ given = NoGiven
    /\ types = << >>
    /\ lastIndex = << >>
    /\ children = << >>
    /\ prevState = NoPrevState
    /\ savedCode = NoCode
    /\ display = NoDisplay
    /\ loaded = NoLoaded

(***************************************************************************)
(* The methods of History.                                                 *)
(***************************************************************************)
\* the assignments of apply to its target
ApplyTo(action) ==
    /\ value' = ApplyValue(action, value)
    /\ selectionStart' = ApplyPosition(action)
    /\ selectionEnd' = ApplyPosition(action)

\* the assignments of applyRev to its target
ApplyRevTo(action) ==
    /\ value' = ApplyRevValue(action, value)
    /\ selectionStart' = ApplyRevPosition(action)
    /\ selectionEnd' = ApplyRevPosition(action)

AddTo(action) ==
    LET r == AddResult(entries, cursor, action, limit)
    IN  /\ entries' = r.entries
        /\ cursor' = r.cursor

UndoOn ==
    IF CanUndo(cursor)
    THEN /\ cursor' = cursor - 1
         /\ IF Missing(entries, cursor - 1)
            THEN UNCHANGED buf
            ELSE ApplyRevTo(entries[(cursor - 1) + 1])
    ELSE UNCHANGED <<cursor, buf>>

RedoOn ==
    IF CanRedo(cursor, entries) /\ ~Missing(entries, cursor)
    THEN /\ ApplyTo(entries[cursor + 1])
         /\ cursor' = cursor + 1
    ELSE UNCHANGED <<cursor, buf>>

Add(action) ==
    /\ Len(AddResult(entries, cursor, action, limit).entries) <= MaxLimit
    /\ AddTo(action)
    /\ Called("add", action, NoData, NoError, TRUE,
              AddResult(entries, cursor, action, limit).newStart)
    /\ UNCHANGED <<limit, buf, exported, run, aside>>

\* undo taking the entry it reverses out of the log
UndoDropsEntry ==
    /\ (CanUndo(cursor) /\ ~Missing(entries, cursor - 1)) =>
           Len(ApplyRevValue(entries[cursor], value)) <= MaxLen
    /\ UndoOn
    /\ entries' = IF CanUndo(cursor) THEN SubSeq(entries, 1, cursor - 1) ELSE entries
    /\ Called("undo", NoPatch, NoData, UndoError(cursor, entries), CanUndo(cursor), 0)
    /\ UNCHANGED <<limit, exported, run, aside>>

Undo ==
    /\ (CanUndo(cursor) /\ ~Missing(entries, cursor - 1)) =>
           Len(ApplyRevValue(entries[cursor], value)) <= MaxLen
    /\ UndoOn
    /\ Called("undo", NoPatch, NoData, UndoError(cursor, entries), CanUndo(cursor), 0)
    /\ UNCHANGED <<limit, entries, exported, run, aside>>

Redo ==
    /\ (CanRedo(cursor, entries) /\ ~Missing(entries, cursor)) =>
           Len(ApplyValue(entries[cursor + 1], value)) <= MaxLen
    /\ RedoOn
    /\ Called("redo", NoPatch, NoData, RedoError(cursor, entries), CanRedo(cursor, entries), 0)
    /\ UNCHANGED <<limit, entries, exported, run, aside>>

ImportOn(d) ==
    LET r == ImportResult(d, cursor, entries)
        e == ImportError(d)
    IN  /\ cursor' = r.cursor
        /\ entries' = r.entries
        /\ IF e = NoError THEN Detach ELSE UNCHANGED exported
        /\ Called("import", NoPatch, d, e, e = NoError, 0)

Import(d) ==
    /\ ImportOn(d)
    /\ UNCHANGED <<limit, buf, run, aside>>

\* reset that puts the cursor back and leaves the entries
ResetKeepsEntries ==
    /\ cursor' = 0
    /\ UNCHANGED entries
    /\ Detach
    /\ Called("reset", NoPatch, NoData, NoError, TRUE, 0)
    /\ UNCHANGED <<limit, buf, run, aside>>

Reset ==
    /\ cursor' = 0
    /\ entries' = << >>
    /\ Detach
    /\ Called("reset", NoPatch, NoData, NoError, TRUE, 0)
    /\ UNCHANGED <<limit, buf, run, aside>>

Apply(action) ==
    /\ Len(ApplyValue(action, value)) <= MaxLen
    /\ ApplyTo(action)
    /\ Called("apply", action, NoData, NoError, TRUE, 0)
    /\ UNCHANGED <<limit, hist, exported, run, aside>>

ApplyRev(action) ==
    /\ Len(ApplyRevValue(action, value)) <= MaxLen
    /\ ApplyRevTo(action)
    /\ Called("applyRev", action, NoData, NoError, TRUE, 0)
    /\ UNCHANGED <<limit, hist, exported, run, aside>>

Next ==
    \/ \E action \in Patches : Add(action)
    \/ Undo
    \/ Redo
    \/ \E d \in CoreImportData : Import(d)
    \/ Reset
    \/ \E action \in Patches : Apply(action)
    \/ \E action \in Patches : ApplyRev(action)

Spec == Init /\ [][Next]_vars

(***************************************************************************)
(* import from every state of the log that add, reset and import reach,    *)
(* with all the data.                                                      *)
(***************************************************************************)
\* the history as constructed, over an empty buffer
InitEmpty == Init /\ value = << >>

NextImport ==
    \/ \E action \in {P1, P2} : Add(action)
    \/ Reset
    \/ \E d \in ImportData : Import(d)

SpecImport == InitEmpty /\ [][NextImport]_vars

(***************************************************************************)
(* export, and what its caller sees and does afterwards.                   *)
(***************************************************************************)
\* return { cursor: this.cursor, entries: this.entries }
ExportedObject(c) == [cursor |-> c, aliased |-> TRUE, entries |-> << >>, held |-> TRUE]

Export ==
    /\ exported' = ExportedObject(cursor)
    /\ Called("export", NoPatch, NoData, NoError, FALSE, 0)
    /\ UNCHANGED <<limit, hist, buf, run, aside>>

\* the caller of export appends to the entries of the object it got
PushExported(action) ==
    /\ exported.held
    /\ Len(ExportedEntries) < MaxLimit
    /\ IF exported.aliased
       THEN /\ entries' = Append(entries, action)
            /\ UNCHANGED exported
       ELSE /\ exported' = [exported EXCEPT !.entries = Append(@, action)]
            /\ UNCHANGED entries
    /\ Called("push", action, NoData, NoError, TRUE, 0)
    /\ UNCHANGED <<limit, cursor, buf, run, aside>>

NextExport ==
    \/ \E action \in {P1, P4} : Add(action)
    \/ Undo
    \/ Redo
    \/ Reset
    \/ \E d \in {ObjectOf(Num(2), ArrayOf(<<ItemOf(P2)>>)), NonObject("null")} : Import(d)
    \/ Export
    \/ \E action \in {P3} : PushExported(action)

SpecExport == InitEmpty /\ [][NextExport]_vars

(***************************************************************************)
(* import, and what its caller does to the data afterwards.                *)
(***************************************************************************)
\* the cursors the caller writes into its data
DataCursors == {Num(0), Num(5)}

\* the data of a caller that keeps it: whole, fractional and NaN cursors
KeptData ==
    {ObjectOf(Num(0), ArrayOf(<< >>)),
     ObjectOf(Num(1), ArrayOf(<<ItemOf(P1)>>)),
     ObjectOf(Num(2), ArrayOf(<<ItemOf(P2)>>)),
     ObjectOf(Num(3), ArrayOf(<<ItemOf(P1), ItemOf(P2)>>)),
     ObjectOf(NaN, ArrayOf(<<ItemOf(P2), ItemOf(P1)>>)),
     ObjectOf(Num(3), ArrayOf(<<ItemOf(P1)>>)),
     NonObject("null")}

\* import(data) by a caller that keeps data
ImportKept(d) ==
    /\ ImportOn(d)
    /\ given' = IF ImportError(d) = NoError
                THEN [held |-> TRUE, kept |-> KeptOfData,
                      cursor |-> d.cursor, items |-> d.entries.items]
                ELSE given
    /\ UNCHANGED <<limit, buf, run, highlighter, editor>>

\* data.cursor = c
SetDataCursor(c) ==
    /\ given.held
    /\ given' = [given EXCEPT !.cursor = c]
    /\ Called("mutate", NoPatch, NoData, NoError, TRUE, 0)
    /\ UNCHANGED <<limit, hist, buf, exported, run, highlighter, editor>>

\* data.entries.push(item): the history has the item too if its array is
\* the array of the data
PushData(p) ==
    /\ given.held
    /\ Len(given.items) <= MaxImport
    /\ given' = [given EXCEPT !.items = Append(@, ItemOf(p))]
    /\ entries' = IF given.kept = "array" THEN Append(entries, p) ELSE entries
    /\ Called("mutate", p, NoData, NoError, TRUE, 0)
    /\ UNCHANGED <<limit, cursor, buf, exported, run, highlighter, editor>>

\* data.entries[i].start = n: the history sees it if the entry it holds at i
\* is the object of the data
SetDataStart(i, n) ==
    /\ given.held
    /\ i \in 1..Len(given.items)
    /\ given' = [given EXCEPT !.items[i].start = StartOf(n)]
    /\ entries' = IF given.kept # "nothing" /\ i <= Len(entries)
                  THEN [entries EXCEPT ![i].start = n]
                  ELSE entries
    /\ Called("mutate", NoPatch, NoData, NoError, TRUE, 0)
    /\ UNCHANGED <<limit, cursor, buf, exported, run, highlighter, editor>>

NextKept ==
    \/ \E d \in KeptData : ImportKept(d)
    \/ Undo
    \/ Redo
    \/ \E c \in DataCursors : SetDataCursor(c)
    \/ \E p \in {P4} : PushData(p)
    \/ \E i \in 1..MaxImport, n \in {0, 1} : SetDataStart(i, n)

\* new History(), over an empty buffer
InitKept == InitEmpty /\ limit = DefaultLimit

SpecKept == InitKept /\ [][NextKept]_vars

(***************************************************************************)
(* export by one history, import of what it returned into another.         *)
(***************************************************************************)
\* the exported object as the data import reads: a number and an array
DataOf(object, items) ==
    ObjectOf(Num(2 * object.cursor), ArrayOf([i \in 1..Len(items) |-> ItemOf(items[i])]))

\* new History(limit) taking the place of the history at hand, which is
\* used no more: the object it exported keeps its array
NewHistory(l) ==
    /\ limit' = LimitOf(l)
    /\ cursor' = 0
    /\ entries' = << >>
    /\ Detach
    /\ Called("new", NoPatch, NoData, NoError, FALSE, 0)
    /\ UNCHANGED <<buf, run, aside>>

\* import of the object export returned last
ImportExported ==
    /\ exported.held
    /\ Import(DataOf(exported, ExportedEntries))

\* a history that exported is left alone until the object is imported or
\* another history takes its place
NextRoundTrip ==
    \/ /\ ~exported.aliased
       /\ \/ \E action \in {P1, P4} : Add(action)
          \/ Undo
          \/ Reset
    \/ Export
    \/ \E l \in 0..MaxLimit : NewHistory(l)
    \/ ImportExported

SpecRoundTrip == InitEmpty /\ [][NextRoundTrip]_vars

(***************************************************************************)
(* Every method of History, called in any order.                           *)
(***************************************************************************)
\* data import accepts, with more entries than a limit of 1 allows and with
\* cursors that are no whole number, and data it rejects
CallsData ==
    {ObjectOf(Num(3), ArrayOf(<<ItemOf(P1), ItemOf(P2)>>)),
     ObjectOf(NaN, ArrayOf(<<ItemOf(P2)>>)),
     ObjectOf(Num(3), ArrayOf(<<ItemOf(P1)>>)),
     NonObject("null")}

NextCalls ==
    \/ \E action \in {P1} : Add(action)
    \/ Undo
    \/ Redo
    \/ Reset
    \/ \E d \in CallsData : Import(d)
    \/ Export
    \/ \E action \in {P3} : Apply(action)
    \/ \E action \in {P3} : ApplyRev(action)

SpecCalls == InitEmpty /\ [][NextCalls]_vars

(***************************************************************************)
(* A Highlighter over a textarea: highlight, called time and again.        *)
(***************************************************************************)
\* the longest text in the textarea
MaxText == 3

HighlighterAlphabet == {"(", ")", "a", "A"}

RECURSIVE InputsOfLen(_)
InputsOfLen(n) ==
    IF n = 0 THEN {<< >>}
    ELSE {Append(t, c) : t \in InputsOfLen(n - 1), c \in HighlighterAlphabet}

\* inputElement.value
Inputs == UNION {InputsOfLen(k) : k \in 0..MaxText}

\* the lists of types the Highlighter is constructed with
TypeLists ==
    {<<"open", "close">>,
     <<"open", "close", "begin", "end">>,
     <<"letter", "pair">>,
     <<"pair", "letter">>,
     <<"upper", "word">>,
     <<"openG", "close">>,
     <<"letter", "closeI">>,
     <<"call", "close">>}

\* new Highlighter(...types) and a textarea with some text and a selection
\* within it; no history takes part
InitHighlighter ==
    /\ limit = DefaultLimit
    /\ cursor = 0
    /\ entries = << >>
    /\ value \in Inputs
    /\ selectionStart \in 0..Len(value)
    /\ selectionEnd \in selectionStart..Len(value)
    /\ exported = NoExport
    /\ op = "new"
    /\ patch = NoPatch
    /\ data = NoData
    /\ err = NoError
    /\ acted = FALSE
    /\ evicted = 0
    /\ run = NoRun
    /\ given = NoGiven
    /\ types \in TypeLists
    /\ lastIndex = [k \in 1..Len(types) |-> 0]
    /\ children = << >>
    /\ prevState = NoPrevState
    /\ savedCode = NoCode
    /\ display = NoDisplay
    /\ loaded = NoLoaded

\* the target and the regexes as a call of highlight that came to r leaves
\* them
Highlighted(r) ==
    /\ children' = r.children
    /\ lastIndex' = r.lastIndex
    /\ Called("highlight", NoPatch, NoData, r.error, TRUE, 0)
    /\ UNCHANGED <<limit, hist, buf, exported, run, given, types, editor>>

Highlight ==
    Highlighted(HighlightResult(types, value, selectionStart, selectionEnd, lastIndex))

NextHighlighter == Highlight

SpecHighlighter == InitHighlighter /\ [][NextHighlighter]_vars

(***************************************************************************)
(* highlight over texts with brackets within brackets.                     *)
(***************************************************************************)
\* inputElement.value: brackets nested, side by side and of two groups
NestedTexts ==
    {<<"(", "a", "(", "b", ")", "c", ")">>,
     <<"(", "(", ")", "(", ")", ")">>,
     <<"(", ")", "(", "(", ")", ")">>,
     <<"(", "A", "(", ")", "a", ")">>,
     <<"A", "(", "a", ")">>,
     <<"(", "(", ")">>,
     <<")", "(", ")", ")">>}

\* the lists of types the Highlighter is constructed with
NestedTypes ==
    {<<"open", "close">>,
     <<"open", "close", "begin", "end">>,
     <<"letter", "open", "close">>}

\* new Highlighter(...types) and a textarea with one of the texts and a
\* selection within it
InitNested ==
    /\ limit = DefaultLimit
    /\ cursor = 0
    /\ entries = << >>
    /\ value \in NestedTexts
    /\ selectionStart \in 0..Len(value)
    /\ selectionEnd \in selectionStart..Len(value)
    /\ exported = NoExport
    /\ op = "new"
    /\ patch = NoPatch
    /\ data = NoData
    /\ err = NoError
    /\ acted = FALSE
    /\ evicted = 0
    /\ run = NoRun
    /\ given = NoGiven
    /\ types \in NestedTypes
    /\ lastIndex = [k \in 1..Len(types) |-> 0]
    /\ children = << >>
    /\ prevState = NoPrevState
    /\ savedCode = NoCode
    /\ display = NoDisplay
    /\ loaded = NoLoaded

NextNested == Highlight

SpecNested == InitNested /\ [][NextNested]_vars

(***************************************************************************)
(* A run: some adds beforehand, then n actions recorded with add and       *)
(* applied to the buffer, then n undos, then n redos.                      *)
(***************************************************************************)
\* most actions recorded in one run
MaxRun == 3

\* the action describes the text: its oldText is what the text holds at start
Fits(action, text) ==
    /\ action.start + Len(action.oldText) <= Len(text)
    /\ SubSeq(text, action.start + 1, action.start + Len(action.oldText)) = action.oldText

\* an add before the run
Prior(action) ==
    /\ run.phase = "idle"
    /\ Add(action)

Begin ==
    /\ run.phase = "idle"
    /\ run' = [NoRun EXCEPT !.phase = "adding", !.before = value, !.after = value]
    /\ UNCHANGED <<limit, hist, buf, exported, call, aside>>

\* add(action), then apply(action, target)
Record(action) ==
    /\ run.phase = "adding"
    /\ run.n < MaxRun
    /\ Len(ApplyValue(action, value)) <= MaxLen
    /\ AddTo(action)
    /\ ApplyTo(action)
    /\ run' = [run EXCEPT !.n = @ + 1, !.after = value',
                          !.fits = @ /\ Fits(action, value)]
    /\ Called("apply", action, NoData, NoError, TRUE,
              AddResult(entries, cursor, action, limit).newStart)
    /\ UNCHANGED <<limit, exported, aside>>

UndoOne ==
    /\ run.phase \in {"adding", "undoing"}
    /\ run.n > 0
    /\ run.undone < run.n
    /\ (CanUndo(cursor) /\ ~Missing(entries, cursor - 1)) =>
           Len(ApplyRevValue(entries[cursor], value)) <= MaxLen
    /\ UndoOn
    /\ run' = [run EXCEPT !.phase = "undoing", !.undone = @ + 1]
    /\ Called("undo", NoPatch, NoData, UndoError(cursor, entries), CanUndo(cursor), 0)
    /\ UNCHANGED <<limit, entries, exported, aside>>

RedoOne ==
    /\ run.phase \in {"undoing", "redoing"}
    /\ run.undone = run.n
    /\ run.redone < run.n
    /\ (CanRedo(cursor, entries) /\ ~Missing(entries, cursor)) =>
           Len(ApplyValue(entries[cursor + 1], value)) <= MaxLen
    /\ RedoOn
    /\ run' = [run EXCEPT !.phase = "redoing", !.redone = @ + 1]
    /\ Called("redo", NoPatch, NoData, RedoError(cursor, entries), CanRedo(cursor, entries), 0)
    /\ UNCHANGED <<limit, entries, exported, aside>>

\* one of a row of adds on a new History, the buffer left as it is
AddOne(action) ==
    /\ run.phase \in {"idle", "adding"}
    /\ run.n < MaxRun
    /\ AddTo(action)
    /\ run' = [run EXCEPT !.phase = "adding", !.n = @ + 1, !.added = Append(@, action)]
    /\ Called("add", action, NoData, NoError, TRUE,
              AddResult(entries, cursor, action, limit).newStart)
    /\ UNCHANGED <<limit, buf, exported, aside>>

\* a row of adds, then as many undos
NextDepth ==
    \/ \E action \in Patches : AddOne(action)
    \/ UndoOne

SpecDepth == Init /\ [][NextDepth]_vars

NextInverse ==
    \/ \E action \in {P3} : Prior(action)
    \/ Begin
    \/ \E action \in Patches : Record(action)
    \/ UndoOne
    \/ RedoOne

SpecInverse == Init /\ [][NextInverse]_vars

(***************************************************************************)
(* apply and applyRev of one action, one after the other, on a history     *)
(* that holds some entries.                                                *)
(***************************************************************************)
\* apply(action, target), the text before it kept aside
ApplyFirst(action) ==
    /\ run.phase \in {"idle", "paired"}
    /\ Len(ApplyValue(action, value)) <= MaxLen
    /\ ApplyTo(action)
    /\ run' = [NoRun EXCEPT !.phase = "applied", !.before = value,
                            !.fits = Fits(action, value)]
    /\ Called("apply", action, NoData, NoError, TRUE, 0)
    /\ UNCHANGED <<limit, hist, exported, aside>>

\* applyRev(action, target) of the action that was just applied
ApplyRevSecond ==
    /\ run.phase = "applied"
    /\ ApplyRevTo(patch)
    /\ run' = [run EXCEPT !.phase = "paired", !.after = value']
    /\ Called("applyRev", patch, NoData, NoError, TRUE, 0)
    /\ UNCHANGED <<limit, hist, exported, aside>>

\* applyRev(action, target), the text before it kept aside
ApplyRevFirst(action) ==
    /\ run.phase \in {"idle", "paired"}
    /\ Len(ApplyRevValue(action, value)) <= MaxLen
    /\ ApplyRevTo(action)
    /\ run' = [NoRun EXCEPT !.phase = "reversed", !.before = value,
                            !.fits = Fits([action EXCEPT !.oldText = action.newText], value)]
    /\ Called("applyRev", action, NoData, NoError, TRUE, 0)
    /\ UNCHANGED <<limit, hist, exported, aside>>

\* apply(action, target) of the action that was just applied in reverse
ApplySecond ==
    /\ run.phase = "reversed"
    /\ ApplyTo(patch)
    /\ run' = [run EXCEPT !.phase = "paired", !.after = value']
    /\ Called("apply", patch, NoData, NoError, TRUE, 0)
    /\ UNCHANGED <<limit, hist, exported, aside>>

NextPair ==
    \/ \E action \in {P1, P2} : Prior(action)
    \/ \E action \in Patches : ApplyFirst(action)
    \/ ApplyRevSecond
    \/ \E action \in Patches : ApplyRevFirst(action)
    \/ ApplySecond

SpecPair == Init /\ [][NextPair]_vars

(***************************************************************************)
(* The Editor (src/index.js): a History, a Highlighter and a textarea,     *)
(* with the storage its save functions write to.                           *)
(***************************************************************************)
\* the number of '\n' in a text
RECURSIVE Newlines(_)
Newlines(text) ==
    IF text = << >> THEN 0
    ELSE (IF Head(text) = "\n" THEN 1 ELSE 0) + Newlines(Tail(text))

\* text.lastIndexOf('\n'): -1 when there is none
RECURSIVE LastIndexOfNewline(_)
LastIndexOfNewline(text) ==
    IF text = << >> THEN -1
    ELSE IF text[Len(text)] = "\n" THEN Len(text) - 1
    ELSE LastIndexOfNewline(SubSeq(text, 1, Len(text) - 1))

\* the line counted over the whole text
LineOfWholeText(text, position) == 1 + Newlines(text)

\* updateLineColumn: what it writes into the two spans
Line(text, position) == 1 + Newlines(SubStr(text, 0, position))
Column(text, position) ==
    position - (LastIndexOfNewline(SubStr(text, 0, position)) + 1) + 1

\* a textarea keeps the ends of its selection within its text
Clamp(position, text) == Max(0, Min(position, Len(text)))

\* apply leaving the cursor at the start of the action
ApplyToTextAreaCursorAtStart(action) ==
    /\ value' = ApplyValue(action, value)
    /\ selectionStart' = Clamp(action.start, value')
    /\ selectionEnd' = Clamp(action.start, value')

\* History.apply on the textarea
ApplyToTextArea(action) ==
    /\ value' = ApplyValue(action, value)
    /\ selectionStart' = Clamp(ApplyPosition(action), value')
    /\ selectionEnd' = Clamp(ApplyPosition(action), value')

\* History.applyRev on the textarea
ApplyRevToTextArea(action) ==
    /\ value' = ApplyRevValue(action, value)
    /\ selectionStart' = Clamp(ApplyRevPosition(action), value')
    /\ selectionEnd' = Clamp(ApplyRevPosition(action), value')

\* undo moving the cursor of the history and leaving the textarea
UndoOnTextAreaCursorOnly ==
    IF CanUndo(cursor)
    THEN /\ cursor' = cursor - 1
         /\ UNCHANGED buf
    ELSE UNCHANGED <<cursor, buf>>

\* History.undo on the textarea
UndoOnTextArea ==
    IF CanUndo(cursor)
    THEN /\ cursor' = cursor - 1
         /\ IF Missing(entries, cursor - 1)
            THEN UNCHANGED buf
            ELSE ApplyRevToTextArea(entries[(cursor - 1) + 1])
    ELSE UNCHANGED <<cursor, buf>>

\* History.redo on the textarea
RedoOnTextArea ==
    IF CanRedo(cursor, entries) /\ ~Missing(entries, cursor)
    THEN /\ ApplyToTextArea(entries[cursor + 1])
         /\ cursor' = cursor + 1
    ELSE UNCHANGED <<cursor, buf>>

\* what refreshContent writes, but for the Highlighter
refreshed == <<prevState, children, lastIndex, display, savedCode>>

\* refreshContent with highlight coming to r and saveContent reading code:
\* refreshPrevState, highlight, refreshPosition (the textarea is never
\* scrolled) and saveContent, the last two left undone by an error of
\* highlight
Refreshed(r, code) ==
    /\ prevState' = [selectionStart |-> selectionStart',
                     selectionEnd |-> selectionEnd', content |-> value']
    /\ children' = r.children
    /\ lastIndex' = r.lastIndex
    /\ IF r.error = NoError
       THEN /\ display' = [line |-> Line(value', selectionStart'),
                           column |-> Column(value', selectionStart'),
                           scrollTop |-> 0]
            /\ savedCode' = [saved |-> TRUE, text |-> code]
       ELSE UNCHANGED <<display, savedCode>>

\* refreshContent saving the text the textarea held before the step
RefreshContentSavesStale ==
    Refreshed(HighlightResult(types, value', selectionStart', selectionEnd', lastIndex),
              value)

\* refreshContent on the textarea as the step leaves it
RefreshContent ==
    Refreshed(HighlightResult(types, value', selectionStart', selectionEnd', lastIndex),
              value')

\* saveHistory: saveCodeHist(this.history.export()), the storage holding the
\* object it was given
SaveHistory == exported' = ExportedObject(cursor')

\* edit(newText)
Edit(newText) ==
    LET start == selectionStart
        end == selectionEnd
        oldText == SubStr(value, start, end)
        action == [start |-> start, oldText |-> oldText, newText |-> newText]
    IN  /\ Len(ApplyValue(action, value)) <= MaxLen
        /\ Len(AddResult(entries, cursor, action, limit).entries) <= MaxLimit
        /\ AddTo(action)
        /\ SaveHistory
        /\ ApplyToTextArea(action)
        /\ RefreshContent
        /\ Called("Editor.edit", action, NoData, NoError, TRUE,
                  AddResult(entries, cursor, action, limit).newStart)
        /\ run' = NoRun
        /\ UNCHANGED <<limit, given, types, loaded>>

\* Editor.undo: an error of History.undo leaves refreshContent undone
EditorUndo ==
    /\ (CanUndo(cursor) /\ ~Missing(entries, cursor - 1)) =>
           Len(ApplyRevValue(entries[cursor], value)) <= MaxLen
    /\ UndoOnTextArea
    /\ IF UndoError(cursor, entries) = NoError THEN RefreshContent ELSE UNCHANGED refreshed
    /\ Called("Editor.undo", NoPatch, NoData, UndoError(cursor, entries), CanUndo(cursor), 0)
    /\ run' = IF run.phase = "event" THEN [run EXCEPT !.phase = "undone"] ELSE NoRun
    /\ UNCHANGED <<limit, entries, exported, given, types, loaded>>

\* Editor.redo
EditorRedo ==
    /\ (CanRedo(cursor, entries) /\ ~Missing(entries, cursor)) =>
           Len(ApplyValue(entries[cursor + 1], value)) <= MaxLen
    /\ RedoOnTextArea
    /\ IF RedoError(cursor, entries) = NoError THEN RefreshContent ELSE UNCHANGED refreshed
    /\ Called("Editor.redo", NoPatch, NoData, RedoError(cursor, entries),
              CanRedo(cursor, entries), 0)
    /\ run' = IF run.phase = "undone" THEN [run EXCEPT !.phase = "redone"] ELSE NoRun
    /\ UNCHANGED <<limit, entries, exported, given, types, loaded>>

\* changeSelection(start, end), and the selection moved by the user, which
\* the selectionchange and click listeners answer with refreshContent
ChangeSelection(start, end) ==
    /\ selectionStart' = start
    /\ selectionEnd' = end
    /\ UNCHANGED value
    /\ RefreshContent
    /\ Called("changeSelection", NoPatch, NoData, NoError, TRUE, 0)
    /\ run' = NoRun
    /\ UNCHANGED <<limit, hist, exported, given, types, loaded>>

\* the action handleUserEdit makes out of prevState and of the textarea as
\* the input event left it
UserAction(prev, content, newStart, newEnd) ==
    LET start == IF prev.selectionStart > newStart THEN newStart ELSE prev.selectionStart
        end == prev.selectionEnd
    IN  [start |-> start,
         oldText |-> SubStr(prev.content, start, end),
         newText |-> SubStr(content, start, newEnd)]

\* an input event of the given type: the textarea is left with text and
\* with the selection collapsed at position, then handleUserEdit runs
InputEvent(inputType, text, position) ==
    LET action == UserAction(prevState, text, position, position)
    IN  /\ Len(text) <= MaxLen
        /\ Len(AddResult(entries, cursor, action, limit).entries) <= MaxLimit
        /\ value' = text
        /\ selectionStart' = position
        /\ selectionEnd' = position
        /\ AddTo(action)
        /\ SaveHistory
        /\ RefreshContent
        /\ Called(inputType, action, NoData, NoError, TRUE,
                  AddResult(entries, cursor, action, limit).newStart)
        /\ run' = [NoRun EXCEPT !.phase = "event", !.before = value, !.after = text]
        /\ UNCHANGED <<limit, given, types, loaded>>

\* a character typed: it takes the place of the selection
InsertText(c) ==
    InputEvent("insertText",
               SubStr(value, 0, selectionStart) \o <<c>> \o SubStrFrom(value, selectionEnd),
               selectionStart + 1)

\* Backspace: the selection goes, or the character before the cursor
DeleteContentBackward ==
    LET start == IF selectionStart > 0 /\ selectionStart = selectionEnd
                 THEN selectionStart - 1 ELSE selectionStart
    IN  InputEvent("deleteContentBackward",
                   SubStr(value, 0, start) \o SubStrFrom(value, selectionEnd),
                   start)

\* Delete: the selection goes, or the character after the cursor
DeleteContentForward ==
    LET end == IF selectionEnd < Len(value) /\ selectionStart = selectionEnd
               THEN selectionEnd + 1 ELSE selectionEnd
    IN  InputEvent("deleteContentForward",
                   SubStr(value, 0, selectionStart) \o SubStrFrom(value, end),
                   selectionStart)

\* Enter: a line break takes the place of the selection
InsertLineBreak ==
    InputEvent("insertLineBreak",
               SubStr(value, 0, selectionStart) \o <<"\n">> \o SubStrFrom(value, selectionEnd),
               selectionStart + 1)

\* the regexes of the types as a refreshContent leaves them, the textarea
\* holding text with the selection from start to end
LastIndexAfter(text, start, end, lis) == HighlightResult(types, text, start, end, lis).lastIndex

\* the pairs of handleParens, handleSquare and handleCurly
Pairs == {<<"(", ")">>, <<"[", "]">>, <<"{", "}">>}

\* the handler of a bracket key without the two steps back
HandleBracketCursorAfter(pair) ==
    LET action == [start |-> selectionStart,
                   oldText |-> SubStr(value, selectionStart, selectionEnd),
                   newText |-> pair]
        text == ApplyValue(action, value)
        position == Clamp(ApplyPosition(action), text)
    IN  /\ Len(text) <= MaxLen + 1
        /\ Len(AddResult(entries, cursor, action, limit).entries) <= MaxLimit
        /\ AddTo(action)
        /\ SaveHistory
        /\ value' = text
        /\ selectionStart' = position
        /\ selectionEnd' = position
        /\ Refreshed(HighlightResult(types, value', selectionStart', selectionEnd', lastIndex),
                     value')
        /\ Called("handleBracket", action, NoData, NoError, TRUE,
                  AddResult(entries, cursor, action, limit).newStart)
        /\ run' = NoRun
        /\ UNCHANGED <<limit, given, types, loaded>>

\* handleParens, handleSquare, handleCurly: edit(pair), selectionStart--,
\* selectionEnd--, each of the three ending with a refreshContent
HandleBracket(pair) ==
    LET action == [start |-> selectionStart,
                   oldText |-> SubStr(value, selectionStart, selectionEnd),
                   newText |-> pair]
        text == ApplyValue(action, value)
        position == Clamp(ApplyPosition(action), text)
    IN  /\ Len(text) <= MaxLen + 1
        /\ Len(AddResult(entries, cursor, action, limit).entries) <= MaxLimit
        /\ AddTo(action)
        /\ SaveHistory
        /\ value' = text
        /\ selectionStart' = Clamp(position - 1, text)
        /\ selectionEnd' = Clamp(position - 1, text)
        /\ Refreshed(HighlightResult(types, value', selectionStart', selectionEnd',
                                     LastIndexAfter(value', selectionStart', selectionStart' + 1,
                                         LastIndexAfter(value', selectionStart' + 1,
                                                        selectionStart' + 1, lastIndex))),
                     value')
        /\ Called("handleBracket", action, NoData, NoError, TRUE,
                  AddResult(entries, cursor, action, limit).newStart)
        /\ run' = NoRun
        /\ UNCHANGED <<limit, given, types, loaded>>

\* isBetweenParens, isBetweenSquares, isBetweenCurlies
IsBetween(text, start, pair) ==
    /\ start > 0
    /\ start < Len(text)
    /\ text[start] = pair[1]
    /\ text[start + 1] = pair[2]

\* handleBackspace taking a bracket before the cursor for enough
IsBetweenOpenerOnly(text, start) ==
    /\ start > 0
    /\ \E pair \in Pairs : text[start] = pair[1]

\* isBetweenCurlies() || isBetweenSquares() || isBetweenParens()
IsBetweenAny(text, start) == \E pair \in Pairs : IsBetween(text, start, pair)

\* handleBackspace with the cursor between a pair: selectionStart--,
\* selectionEnd++, edit(''), each of the three ending with a refreshContent
HandleBackspace ==
    LET start == Clamp(selectionStart - 1, value)
        end == Clamp(selectionEnd + 1, value)
        action == [start |-> start, oldText |-> SubStr(value, start, end), newText |-> << >>]
    IN  /\ Len(AddResult(entries, cursor, action, limit).entries) <= MaxLimit
        /\ AddTo(action)
        /\ SaveHistory
        /\ value' = ApplyValue(action, value)
        /\ selectionStart' = Clamp(ApplyPosition(action), value')
        /\ selectionEnd' = Clamp(ApplyPosition(action), value')
        /\ Refreshed(HighlightResult(types, value', selectionStart', selectionEnd',
                                     LastIndexAfter(value, start, end,
                                         LastIndexAfter(value, start, selectionEnd,
                                                        lastIndex))),
                     value')
        /\ Called("handleBackspace", action, NoData, NoError, TRUE,
                  AddResult(entries, cursor, action, limit).newStart)
        /\ run' = NoRun
        /\ UNCHANGED <<limit, given, types, loaded>>

\* the Backspace key: handleBackspace on keydown, which prevents the default
\* between a pair and lets the textarea delete otherwise
Backspace ==
    IF IsBetweenAny(value, selectionStart) THEN HandleBackspace ELSE DeleteContentBackward

\* loadCode() || ''
CodeOrEmpty(code) == IF code.saved THEN code.text ELSE << >>

\* the catch that lets a SyntaxError through
CaughtHistoryErrorOnly(thrown, d) == thrown = NoError /\ ImportError(d) # NoError

\* the error load catches: a SyntaxError of loadCodeHist, a HistoryError of
\* import
Caught(thrown, d) ==
    thrown = "SyntaxError" \/ (thrown = NoError /\ ImportError(d) # NoError)

\* load(), loadCodeHist returning d or throwing, loadCode returning code;
\* the textarea given another text has the cursor at its end
Load(thrown, d, code) ==
    LET text == CodeOrEmpty(code)
        rethrown == thrown # NoError /\ ~Caught(thrown, d)
    IN  /\ Len(text) <= MaxLen
        /\ thrown # NoError => d = NoData
        /\ loaded' = [thrown |-> thrown, data |-> d, code |-> code]
        /\ IF rethrown
           THEN UNCHANGED <<hist, buf, exported, refreshed>>
           ELSE /\ IF Caught(thrown, d)
                   THEN /\ cursor' = 0
                        /\ entries' = << >>
                        /\ SaveHistory
                   ELSE /\ cursor' = ImportResult(d, cursor, entries).cursor
                        /\ entries' = ImportResult(d, cursor, entries).entries
                        /\ Detach
                /\ value' = text
                /\ selectionStart' = IF text = value THEN selectionStart ELSE Len(text)
                /\ selectionEnd' = IF text = value THEN selectionEnd ELSE Len(text)
                /\ RefreshContent
        /\ Called("load", NoPatch, d, IF rethrown THEN thrown ELSE NoError, ~rethrown, 0)
        /\ run' = NoRun
        /\ UNCHANGED <<limit, given, types>>

\* the texts the textarea holds when the Editor is constructed
EditorTexts == {<< >>, <<"b", "a">>}

\* what loadCodeHist returns: nothing saved yet, a history saved earlier,
\* data with the cursor too far
LoadedData ==
    {NonObject("undefined"),
     ObjectOf(Num(2), ArrayOf(<<ItemOf(P1)>>)),
     ObjectOf(Num(4), ArrayOf(<<ItemOf(P1)>>))}

\* what loadCode returns: nothing saved yet, a text saved earlier
LoadedCode == {NoCode, [saved |-> TRUE, text |-> <<"a", "b">>]}

\* the selections the user makes: the cursor at a place, the whole text
Selections(text) == {<<p, p>> : p \in 0..Len(text)} \cup {<<0, Len(text)>>}

\* new Editor(params), with a historyLimit of 1 or 2, on a textarea with
\* some text, its cursor at the start
InitEditor ==
    /\ \E l \in {1, 2} : limit = LimitOf(l)
    /\ cursor = 0
    /\ entries = << >>
    /\ value \in EditorTexts
    /\ selectionStart = 0
    /\ selectionEnd = 0
    /\ exported = NoExport
    /\ op = "new"
    /\ patch = NoPatch
    /\ data = NoData
    /\ err = NoError
    /\ acted = FALSE
    /\ evicted = 0
    /\ run = NoRun
    /\ given = NoGiven
    /\ types = <<"letter">>
    /\ lastIndex = <<0>>
    /\ children = << >>
    /\ prevState = [selectionStart |-> 0, selectionEnd |-> 0, content |-> value]
    /\ savedCode = NoCode
    /\ display = NoDisplay
    /\ loaded = NoLoaded

\* the methods of the Editor and a character typed
NextEditor ==
    \/ \E newText \in {<< >>, <<"a">>} : Edit(newText)
    \/ EditorUndo
    \/ EditorRedo
    \/ \E selection \in Selections(value) : ChangeSelection(selection[1], selection[2])
    \/ \E c \in {"b"} : InsertText(c)

SpecEditor == InitEditor /\ [][NextEditor]_vars

\* the input events, with undo and redo
NextEvents ==
    \/ \E selection \in Selections(value) : ChangeSelection(selection[1], selection[2])
    \/ \E c \in {"a"} : InsertText(c)
    \/ DeleteContentBackward
    \/ DeleteContentForward
    \/ EditorUndo
    \/ EditorRedo

SpecEvents == InitEditor /\ [][NextEvents]_vars

\* the keys handleKey has handlers for, and the selection
NextKeys ==
    \/ \E pair \in Pairs : HandleBracket(pair)
    \/ Backspace
    \/ \E selection \in Selections(value) : ChangeSelection(selection[1], selection[2])

\* new Editor(params) with a historyLimit of 1
InitKeys == InitEditor /\ limit = LimitOf(1)

SpecKeys == InitKeys /\ [][NextKeys]_vars

\* edit while the log has room: nothing is chopped off its start
EditWithinLimit(newText) ==
    /\ Len(SpliceFrom(entries, cursor)) < limit
    /\ Edit(newText)

\* load of some code and no history, then edit, undo and redo with the
\* log never full
NextWithinLimit ==
    \/ \E code \in LoadedCode : Load("SyntaxError", NoData, code)
    \/ \E newText \in {<< >>, <<"a">>} : EditWithinLimit(newText)
    \/ EditorUndo
    \/ EditorRedo
    \/ \E selection \in Selections(value) : ChangeSelection(selection[1], selection[2])

SpecWithinLimit == InitEditor /\ [][NextWithinLimit]_vars

\* lines broken and joined, and the cursor moved over them
NextLines ==
    \/ InsertLineBreak
    \/ \E newText \in {<< >>} : Edit(newText)
    \/ DeleteContentBackward
    \/ \E selection \in Selections(value) : ChangeSelection(selection[1], selection[2])

SpecLines == InitEditor /\ [][NextLines]_vars

\* load, of an Editor that has a history or has none yet
NextLoad ==
    \/ \E newText \in {<<"a">>} : Edit(newText)
    \/ EditorUndo
    \/ \E thrown \in {"SyntaxError", "Error"} : \E code \in LoadedCode :
          Load(thrown, NoData, code)
    \/ \E d \in LoadedData : \E code \in LoadedCode : Load(NoError, d, code)

SpecLoad == InitEditor /\ [][NextLoad]_vars

(***************************************************************************)
(* Properties of the history: the cursor and the length of the log.        *)
(***************************************************************************)
\* C1: in every state reached by add, undo, redo, import (accepted or
\* rejected) and reset, the cursor is an integer from 0 to the number of
\* entries.
CursorWithinEntries ==
    /\ cursor \in Int
    /\ 0 <= cursor
    /\ cursor <= Len(entries)

\* an import of a fractional cursor went through, and the cursor is whole
CursorWithinEntriesSeen ==
    /\ op = "import"
    /\ acted
    /\ data.cursor.halves = 3
    /\ cursor = 1
    /\ Len(entries) = 2

\* C2: after any mutating method the log holds at most limit entries.
LengthWithinLimit == Len(entries) <= limit

(***************************************************************************)
(* Properties of add.                                                      *)
(***************************************************************************)
\* C3, as claimed: add called with cursor c keeps entries[0..c), drops the
\* rest, appends the action and advances the cursor by one, so that the
\* cursor ends at the end of the log.
AddAppendsAndAdvances ==
    [][op' = "add" =>
        /\ entries' = Append(SubSeq(entries, 1, cursor), patch')
        /\ cursor' = cursor + 1
        /\ cursor' = Len(entries')]_vars

\* the entries of es from offset c - k to offset c
LastBefore(es, c, k) == SubSeq(es, c - k + 1, c)

\* C3, amended: add called with cursor c drops the entries from offset c on
\* and appends the action; the c + 1 - limit oldest entries are then chopped
\* off when c + 1 exceeds the limit, and the cursor is lowered by as many.
\* With c + 1 <= limit entries[0..c) is unchanged and the cursor is c + 1.  In
\* every case the action is the last entry and the cursor is the number of
\* entries, so that a redo that follows does nothing.
AddAppendsThenChops ==
    [][op' = "add" =>
        LET kept == Min(cursor, limit - 1)
        IN  /\ entries' = Append(LastBefore(entries, cursor, kept), patch')
            /\ cursor' = kept + 1
            /\ cursor + 1 <= limit =>
                 /\ SubSeq(entries', 1, cursor) = SubSeq(entries, 1, cursor)
                 /\ cursor' = cursor + 1
            /\ entries'[Len(entries')] = patch'
            /\ cursor' = Len(entries')]_vars

\* an add went through that chopped an entry off and left a log of two
AddAppendsThenChopsSeen ==
    /\ op = "add"
    /\ evicted > 0
    /\ Len(entries) = 2
    /\ entries[2] = patch
    /\ cursor = 2

\* C4: when an add would leave more than limit entries, the oldest are
\* chopped off so that exactly the limit newest stay, in their order, and
\* the cursor is lowered by the number chopped off, never below 0.
EvictionKeepsNewest ==
    [][(op' = "add" /\ cursor + 1 > limit) =>
        LET all == Append(SubSeq(entries, 1, cursor), patch')
            gone == Len(all) - limit
        IN  /\ Len(entries') = limit
            /\ \A i \in 1..limit : entries'[i] = all[gone + i]
            /\ evicted' = gone
            /\ cursor' = (cursor + 1) - gone
            /\ cursor' >= 0]_vars

\* limit 2: an add chopped the oldest entry off and the cursor is 2
EvictionKeepsNewestSeen ==
    /\ op = "add"
    /\ limit = 2
    /\ evicted = 1
    /\ Len(entries) = 2
    /\ cursor = 2

(***************************************************************************)
(* Properties of undo, redo and the patch primitives.                      *)
(***************************************************************************)
\* text with the n characters from offset start on replaced by ins; a run
\* that reaches past the end of the text stops at its end
Replaced(text, start, n, ins) ==
    LET from == Min(start, Len(text))
        to == Min(start + n, Len(text))
    IN  [i \in 1..(from + Len(ins) + (Len(text) - to)) |->
            IF i <= from THEN text[i]
            ELSE IF i <= from + Len(ins) THEN ins[i - from]
            ELSE text[to + (i - from - Len(ins))]]

\* C5: undo with the cursor at 0 changes neither the history nor the buffer;
\* otherwise the cursor goes down by one and the entry it then points at is
\* applied in reverse: the newText.length characters from its start on are
\* replaced by its oldText.
UndoReversesEntry ==
    [][op' = "undo" =>
        IF cursor = 0
        THEN UNCHANGED <<hist, buf>>
        ELSE LET e == entries[cursor]
             IN  /\ cursor' = cursor - 1
                 /\ e = entries[cursor' + 1]
                 /\ value' = Replaced(value, e.start, Len(e.newText), e.oldText)]_vars

\* an undo put the old text of a replacement back into the buffer
UndoReversesEntrySeen ==
    /\ op = "undo"
    /\ acted
    /\ entries[cursor + 1] = P2
    /\ value = <<"a", "a">>

\* C6: redo with the cursor at the end changes neither the history nor the
\* buffer; otherwise the entry at the cursor is applied forward (the
\* oldText.length characters from its start on are replaced by its newText)
\* and the cursor goes up by one.
RedoAppliesEntry ==
    [][op' = "redo" =>
        IF cursor = Len(entries)
        THEN UNCHANGED <<hist, buf>>
        ELSE LET e == entries[cursor + 1]
             IN  /\ cursor' = cursor + 1
                 /\ value' = Replaced(value, e.start, Len(e.oldText), e.newText)]_vars

\* a redo put the new text of a replacement into the buffer
RedoAppliesEntrySeen ==
    /\ op = "redo"
    /\ acted
    /\ entries[cursor] = P2
    /\ value = <<"a", "b">>

UndoRedoInverse ==
    /\ (run.phase = "undoing" /\ run.undone = run.n) => value = run.before
    /\ (run.phase = "redoing" /\ run.redone = run.n) => value = run.after

\* C7, amended: the same of n <= limit actions, each of which describes the
\* buffer when it is recorded (its oldText is the text of the buffer from its
\* start on).
UndoRedoInverseWithinLimit ==
    (run.fits /\ run.n <= limit) =>
        /\ (run.phase = "undoing" /\ run.undone = run.n) => value = run.before
        /\ (run.phase = "redoing" /\ run.redone = run.n) => value = run.after

\* two actions that changed the text were undone and redone, after an
\* earlier add, under a limit of two
UndoRedoInverseWithinLimitSeen ==
    /\ run.phase = "redoing"
    /\ run.fits
    /\ run.n = 2
    /\ limit = 2
    /\ evicted = 0
    /\ run.redone = 2
    /\ run.before # run.after
    /\ value = run.after

(***************************************************************************)
(* The object export returns (SpecExport).                                 *)
(***************************************************************************)
\* C9: add, undo and redo change neither the cursor nor the entries of an
\* object export returned earlier, and appending to the entries of that
\* object does not change the history.
ExportIsSnapshot ==
    [][/\ (exported.held /\ op' \in {"add", "undo", "redo"}) =>
            /\ ExportedEntries' = ExportedEntries
            /\ exported'.cursor = exported.cursor
       /\ op' = "push" => UNCHANGED hist]_vars

(***************************************************************************)
(* Rejected imports (SpecImport).                                          *)
(***************************************************************************)
\* the data fails one of the checks import is to make: it is no object, its
\* cursor no number, its entries no array, an entry no object or with a field
\* of the wrong type, or its cursor below 0 or above the number of entries
FailsValidation(d) ==
    \/ d.type # "object"
    \/ d.cursor.type # "number"
    \/ d.entries.type # "array"
    \/ \E i \in 1..Len(d.entries.items) :
         LET entry == d.entries.items[i]
         IN  \/ entry.type # "object"
             \/ entry.start.type # "number"
             \/ entry.oldText.type # "string"
             \/ entry.newText.type # "string"
    \/ /\ ~d.cursor.nan
       /\ \/ d.cursor.halves < 0
          \/ d.cursor.halves > 2 * Len(d.entries.items)

\* C10: import of data that fails validation, from whatever state of the
\* history, throws and leaves the cursor and the entries as they were.
ImportIsTransactional ==
    [][(op' = "import" /\ FailsValidation(data')) =>
        /\ err' # NoError
        /\ UNCHANGED hist]_vars

\* an import was rejected for its cursor while the log held two entries
ImportIsTransactionalSeen ==
    /\ op = "import"
    /\ err = "Cursor is too far"
    /\ ~acted
    /\ data.cursor.halves = 3
    /\ Len(entries) = 2
    /\ cursor = 2

(***************************************************************************)
(* The error import reports (SpecImport).                                  *)
(***************************************************************************)
\* the six kinds of error, by the message the HistoryError carries
ErrorKind(message) ==
    CASE message = "Data is not a valid object" -> "InvalidData"
      [] message = "Data cursor is not a number" -> "InvalidCursorType"
      [] message = "Data entries are not an Array" -> "InvalidEntries"
      [] message = "An entry is not a valid object" -> "InvalidEntry"
      [] message \in {"An entry start is not a number",
                      "An entry oldText is not string",
                      "An entry newText is not string"} -> "InvalidEntryField"
      [] message = "Cursor is too far" -> "CursorOutOfRange"
      [] OTHER -> "None"

\* an entry whose start is no number, or whose oldText or newText no string
HasBadField(entry) ==
    \/ entry.start.type # "number"
    \/ entry.oldText.type # "string"
    \/ entry.newText.type # "string"

\* a cursor below 0 or above n; NaN is neither
OutOfRange(c, n) == ~c.nan /\ (c.halves < 0 \/ c.halves > 2 * n)

\* the first of the six conditions, in the order stated, that the data meets
FirstOfSix(d) ==
    LET items == d.entries.items
    IN  IF d.type # "object" THEN "InvalidData"
        ELSE IF d.cursor.type # "number" THEN "InvalidCursorType"
        ELSE IF d.entries.type # "array" THEN "InvalidEntries"
        ELSE IF \E i \in 1..Len(items) : items[i].type # "object" THEN "InvalidEntry"
        ELSE IF \E i \in 1..Len(items) : HasBadField(items[i]) THEN "InvalidEntryField"
        ELSE IF OutOfRange(d.cursor, Len(items)) THEN "CursorOutOfRange"
        ELSE "None"

\* the same, with conditions (4) and (5) taken entry by entry: the first
\* entry, in the order of the array, that meets either decides, and (4)
\* goes before (5) on that entry
FirstByEntry(d) ==
    LET items == d.entries.items
        bad == {i \in 1..Len(items) : items[i].type # "object" \/ HasBadField(items[i])}
        first == CHOOSE i \in bad : \A j \in bad : i <= j
    IN  IF d.type # "object" THEN "InvalidData"
        ELSE IF d.cursor.type # "number" THEN "InvalidCursorType"
        ELSE IF d.entries.type # "array" THEN "InvalidEntries"
        ELSE IF bad # {} /\ items[first].type # "object" THEN "InvalidEntry"
        ELSE IF bad # {} THEN "InvalidEntryField"
        ELSE IF OutOfRange(d.cursor, Len(items)) THEN "CursorOutOfRange"
        ELSE "None"

\* C11: import reports the kind of the first condition that fails, in the
\* order: data no object, cursor no number, entries no array, some entry no
\* object, some entry with a field of the wrong type, cursor out of range.
ErrorKindInStatedOrder ==
    op = "import" => ErrorKind(err) = FirstOfSix(data)

\* C11, amended: the same order, but the entries are checked one by one, so
\* that the first entry of the array that is no object or has a field of the
\* wrong type decides the kind; the six kinds carry different messages.
ErrorKindByEntryOrder ==
    op = "import" =>
        /\ ErrorKind(err) = FirstByEntry(data)
        /\ (err = NoError) = (FirstByEntry(data) = "None")

\* import was given an entry with a start of the wrong type ahead of a null
\* entry, and reported the field
ErrorKindByEntryOrderSeen ==
    /\ op = "import"
    /\ data = ObjectOf(Num(0), ArrayOf(<<BadStartItem, NullItem>>))
    /\ err = "An entry start is not a number"
    /\ ~acted

\* data that passes every check on its structure: an object with a number
\* for cursor and an array of objects with a number start and string texts
StructurallyWellFormed(d) ==
    /\ d.type = "object"
    /\ d.cursor.type = "number"
    /\ d.entries.type = "array"
    /\ \A i \in 1..Len(d.entries.items) :
         d.entries.items[i].type = "object" /\ ~HasBadField(d.entries.items[i])

\* C12: import of structurally well-formed data is rejected, and then with
\* the cursor error, exactly when data.cursor < 0 or data.cursor >
\* data.entries.length; cursor 0 and cursor entries.length are accepted.
CursorRangeDecides ==
    (op = "import" /\ StructurallyWellFormed(data)) =>
        LET n == Len(data.entries.items)
        IN  /\ (err # NoError) = OutOfRange(data.cursor, n)
            /\ err \in {NoError, "Cursor is too far"}
            /\ (data.cursor = Num(0) \/ data.cursor = Num(2 * n)) =>
                   (err = NoError /\ acted)

\* a cursor equal to the number of entries, two, was accepted
CursorRangeDecidesSeen ==
    /\ op = "import"
    /\ StructurallyWellFormed(data)
    /\ Len(data.entries.items) = 2
    /\ data.cursor = Num(4)
    /\ err = NoError
    /\ cursor = 2

(***************************************************************************)
(* What import keeps of its data (SpecKept).                               *)
(***************************************************************************)
\* the whole number a number is cut to, towards zero
Truncation(c) ==
    CHOOSE n \in -(MaxImport + 1)..(MaxImport + 1) :
        IF c.halves >= 0 THEN 2 * n <= c.halves /\ c.halves < 2 * n + 2
        ELSE 2 * n >= c.halves /\ c.halves > 2 * n - 2

\* C13: a successful import leaves the cursor at data.cursor cut to a whole
\* number (0 for NaN) and the entries equal, one by one and in order, to those
\* of data.entries; whatever the caller then writes into data, its entries
\* array or the entries in it leaves the cursor and the entries as they were.
ImportCopiesData ==
    [][/\ (op' = "import" /\ acted') =>
            LET items == data'.entries.items
            IN  /\ cursor' = IF data'.cursor.nan THEN 0 ELSE Truncation(data'.cursor)
                /\ Len(entries') = Len(items)
                /\ \A i \in 1..Len(items) :
                     /\ entries'[i].start = items[i].start.num
                     /\ entries'[i].oldText = items[i].oldText.text
                     /\ entries'[i].newText = items[i].newText.text
       /\ (op' = "mutate") => UNCHANGED hist]_vars

\* the caller changed the start of the first of the two entries it had
\* imported with cursor 1.5, and the history kept cursor 1 and start 0
ImportCopiesDataSeen ==
    /\ op = "mutate"
    /\ given.items = <<[ItemOf(P1) EXCEPT !.start = StartOf(1)], ItemOf(P2)>>
    /\ given.cursor = Num(3)
    /\ cursor = 1
    /\ entries = <<P1, P2>>

(***************************************************************************)
(* export, import, export (SpecRoundTrip).                                 *)
(***************************************************************************)
\* C14: the object export returned is accepted by import, whatever the
\* history that imports it holds, and an export right after returns a cursor
\* and entries equal to those imported, entry by entry and in order.
RoundTrip ==
    [][/\ (exported.held /\ op' = "import"
           /\ data' = DataOf(exported, ExportedEntries)) => acted'
       /\ (op = "import" /\ acted /\ exported.held
           /\ data = DataOf(exported, ExportedEntries) /\ op' = "export") =>
             /\ Num(2 * exported'.cursor) = data.cursor
             /\ Len(ExportedEntries') = Len(data.entries.items)
             /\ \A i \in 1..Len(data.entries.items) :
                  ItemOf(ExportedEntries'[i]) = data.entries.items[i]]_vars

\* a history of limit 1 holding one entry imported what a history of two
\* entries had exported with its cursor at 1, and exported it
RoundTripSeen ==
    /\ op = "export"
    /\ limit = 1
    /\ exported.cursor = 1
    /\ ExportedEntries = <<P1, P4>>

(***************************************************************************)
(* reset (Spec).                                                           *)
(***************************************************************************)
\* C15: reset, from whatever state, leaves cursor 0, no entries and the
\* limit it found; an undo or a redo right after it changes nothing.
ResetClears ==
    [][/\ op' = "reset" => (cursor' = 0 /\ entries' = << >> /\ limit' = limit)
       /\ (op = "reset" /\ op' \in {"undo", "redo"}) =>
             (~acted' /\ UNCHANGED <<limit, hist, buf>>)]_vars

\* reset of a history whose edits had filled the buffer
ResetClearsSeen ==
    /\ op = "reset"
    /\ cursor = 0
    /\ entries = << >>
    /\ value = <<"a", "b">>
    /\ selectionStart = 2

(***************************************************************************)
(* Methods that throw nothing (SpecCalls).                                 *)
(***************************************************************************)
\* C16: after whatever calls, accepted and rejected imports among them, add,
\* undo, redo, reset, export, apply and applyRev throw nothing; an undo that
\* steps back and a redo that steps forward find the entry they apply.
OnlyImportThrows ==
    /\ op \in {"add", "undo", "redo", "reset", "export", "apply", "applyRev"} =>
          err = NoError
    /\ CanUndo(cursor) => ~Missing(entries, cursor - 1)
    /\ CanRedo(cursor, entries) => ~Missing(entries, cursor)

\* an undo stepped back, with nothing thrown, in a history of limit 1
\* that holds the two entries an import put there
OnlyImportThrowsSeen ==
    /\ op = "undo"
    /\ acted
    /\ err = NoError
    /\ limit = 1
    /\ Len(entries) = 2
    /\ cursor = 1

(***************************************************************************)
(* The tokens of highlight (SpecHighlighter).  The tokens are the children *)
(* of the target but the closing <br>.                                     *)
(***************************************************************************)
Tokens == SubSeq(children, 1, Len(children) - 1)

RECURSIVE Concatenation(_)
Concatenation(nodes) ==
    IF nodes = << >> THEN << >> ELSE Head(nodes).text \o Concatenation(Tail(nodes))

\* C17: the texts of the tokens highlight emits, concatenated in order, are
\* the input text, and no token has an empty text.
TextPreserved ==
    op = "highlight" =>
        /\ Concatenation(Tokens) = value
        /\ \A i \in 1..Len(Tokens) : Tokens[i].text # << >>

\* the number, among the groups of the composite pattern, of the group that
\* wraps the k-th rule
RECURSIVE OuterGroup(_, _)
OuterGroup(ts, k) ==
    IF k = 1 THEN 1
    ELSE OuterGroup(ts, k - 1) + 1 + Groups(RuleNamed(ts[k - 1]).regex)

\* what the i-th piece split returns is: the text between two matches, the
\* whole of a match (the group that wraps a rule), or a group inside a rule
PieceKind(ts, i) ==
    LET g == (i - 1) % (Groups(Alternatives(ts)) + 1)
    IN  IF g = 0 THEN "gap"
        ELSE IF \E k \in 1..Len(ts) : OuterGroup(ts, k) = g THEN "match"
        ELSE "inner"

\* the kinds of the pieces that are neither undefined nor empty, in order
RECURSIVE KeptKinds(_, _, _)
KeptKinds(ts, pieces, i) ==
    IF i > Len(pieces) THEN << >>
    ELSE IF ~pieces[i].defined \/ pieces[i].text = << >> THEN KeptKinds(ts, pieces, i + 1)
    ELSE <<PieceKind(ts, i)>> \o KeptKinds(ts, pieces, i + 1)

\* the pattern of the rule, with its own flags, matches somewhere in the piece
RuleMatches(name, piece) ==
    Search(RuleNamed(name).regex, piece, 0, HasFlag(RuleNamed(name).flags, "i")) # << >>

\* C18: a piece the composite pattern matched is given the class of the
\* earliest rule whose pattern matches it, and a piece between two matches
\* is emitted unclassified.
FirstMatchWins ==
    op = "highlight" =>
        LET kinds == KeptKinds(types, Split(Alternatives(types), value,
                                            HasFlag(Flags(types), "i")), 1)
        IN  \A i \in 1..Len(Tokens) :
                /\ kinds[i] = "gap" => Tokens[i].kind = "text"
                /\ kinds[i] = "match" =>
                      \A k \in 1..Len(types) :
                          (/\ RuleMatches(types[k], Tokens[i].text)
                           /\ \A j \in 1..(k - 1) : ~RuleMatches(types[j], Tokens[i].text))
                          => (/\ Tokens[i].kind = "span"
                              /\ Tokens[i].class[1] = RuleNamed(types[k]).className)

\* the orders n rules can be given in
Orders(n) == {p \in [1..n -> 1..n] : \A i, j \in 1..n : p[i] = p[j] => i = j}

Reordered(ts, p) == [i \in 1..Len(ts) |-> ts[p[i]]]

TokenTexts == [i \in 1..Len(Tokens) |-> Tokens[i].text]

\* C19: the same rules in any other order split the text into the same
\* pieces.
SegmentationIgnoresOrder ==
    op = "highlight" =>
        \A p \in Orders(Len(types)) : Pieces(Reordered(types, p), value) = TokenTexts

\* at no position of the text do two of the rules match, each under the
\* flags of all of them
Exclusive(ts, text) ==
    \A q \in 0..Len(text) : \A j, k \in 1..Len(ts) :
        (/\ Matches(RuleNamed(ts[j]).regex, text, q, HasFlag(Flags(ts), "i")) # << >>
         /\ Matches(RuleNamed(ts[k]).regex, text, q, HasFlag(Flags(ts), "i")) # << >>)
        => j = k

\* C19, amended: when at no position of the text two of the rules match, the
\* same rules in any other order split the text into the same pieces.
SegmentationIgnoresOrderOfExclusiveRules ==
    (op = "highlight" /\ Exclusive(types, value)) =>
        \A p \in Orders(Len(types)) : Pieces(Reordered(types, p), value) = TokenTexts

\* four rules of which one at most matches at a position split "(A)" in
\* three, in each of their 24 orders
SegmentationIgnoresOrderOfExclusiveRulesSeen ==
    /\ op = "highlight"
    /\ types = <<"open", "close", "begin", "end">>
    /\ value = <<"(", "A", ")">>
    /\ Exclusive(types, value)
    /\ TokenTexts = << <<"(">>, <<"A">>, <<")">> >>

(***************************************************************************)
(* Brackets (SpecHighlighter).                                             *)
(***************************************************************************)
\* the offset of the i-th token: the length of the tokens before it
Offset(i) == Len(Concatenation(SubSeq(Tokens, 1, i - 1)))

AtCursor(i) ==
    /\ selectionStart = Offset(i)
    /\ selectionEnd <= Offset(i) + Len(Tokens[i].text)

\* the bracket role of the rule the i-th token was classified by
Role(i) ==
    IF Tokens[i].type = 0 THEN NoBracket ELSE RuleNamed(types[Tokens[i].type]).bracket

Opens(i, g) == Role(i).name = g /\ Role(i).direction = "opening"
Closes(i, g) == Role(i).name = g /\ Role(i).direction = "closing"

\* the height of the stack of group g after the i-th token: an opening
\* token raises it, a closing token lowers it unless it is empty
RECURSIVE Height(_, _)
Height(g, i) ==
    IF i = 0 THEN 0
    ELSE IF Opens(i, g) THEN Height(g, i - 1) + 1
    ELSE IF Closes(i, g) THEN Max(Height(g, i - 1) - 1, 0)
    ELSE Height(g, i - 1)

\* the closing token j pops the opening token i: i is on top of the stack of
\* their group when j comes
Pops(j, i) ==
    \E g \in BracketNames :
        /\ i < j
        /\ Opens(i, g)
        /\ Closes(j, g)
        /\ Height(g, j - 1) = Height(g, i)
        /\ \A k \in (i + 1)..(j - 1) : Height(g, k) >= Height(g, i)

\* C20: a bracket token is at the cursor iff selectionStart is its offset
\* and selectionEnd at most its offset plus its length; a closing token pops
\* the stack of its group, and a token bears the selected-bracket mark, once,
\* iff it is the opening or the closing token of such a pop and one of the
\* two is at the cursor.
BracketPairing ==
    op = "highlight" =>
        \A i \in 1..Len(Tokens) :
            (Tokens[i].kind = "span") =>
                Tokens[i].class =
                    <<RuleNamed(types[Tokens[i].type]).className>>
                    \o (IF \E j \in 1..Len(Tokens) :
                              /\ Pops(j, i) \/ Pops(i, j)
                              /\ AtCursor(i) \/ AtCursor(j)
                        THEN <<"selected-bracket">>
                        ELSE << >>)

\* with the cursor before the second of "(()" the second parenthesis and the
\* closing one, which pops it, are marked, and the first is not
BracketPairingSeen ==
    /\ op = "highlight"
    /\ types = <<"open", "close">>
    /\ value = <<"(", "(", ")">>
    /\ selectionStart = 1
    /\ selectionEnd = 1
    /\ Tokens[1].class = <<"punctuation">>
    /\ Tokens[2].class = <<"punctuation", "selected-bracket">>
    /\ Tokens[3].class = <<"punctuation", "selected-bracket">>

\* the token bears the selected-bracket mark
Marked(i) == \E k \in 1..Len(Tokens[i].class) : Tokens[i].class[k] = "selected-bracket"

\* C21: at the end of a highlight pass a closing token bears the
\* selected-bracket mark iff the opening token it popped, of the same group,
\* bears it.
BracketSymmetry ==
    op = "highlight" =>
        \A i, j \in 1..Len(Tokens) : Pops(j, i) => (Marked(j) <=> Marked(i))

\* with the cursor before the closing one of "()", which comes second, both
\* parentheses are marked
BracketSymmetrySeen ==
    /\ op = "highlight"
    /\ types = <<"open", "close", "begin", "end">>
    /\ value = <<"(", ")">>
    /\ selectionStart = 1
    /\ selectionEnd = 1
    /\ Pops(2, 1)
    /\ Marked(1)
    /\ Marked(2)

\* the closing token finds the stack of its group empty
Unmatched(u) == \E g \in BracketNames : Closes(u, g) /\ Height(g, u - 1) = 0

\* the opening token is still on its stack at the end of the pass
Unpopped(u) ==
    /\ \E g \in BracketNames : Opens(u, g)
    /\ \A j \in 1..Len(Tokens) : ~Pops(j, u)

\* the height of the stack of group g after the i-th token, had the pass
\* begun after token u
RECURSIVE HeightAfter(_, _, _)
HeightAfter(g, u, i) ==
    IF i <= u THEN 0
    ELSE IF Opens(i, g) THEN HeightAfter(g, u, i - 1) + 1
    ELSE IF Closes(i, g) THEN Max(HeightAfter(g, u, i - 1) - 1, 0)
    ELSE HeightAfter(g, u, i - 1)

\* the closing token j pops the opening token i in a pass begun after u
PopsAfter(u, j, i) ==
    \E g \in BracketNames :
        /\ u < i
        /\ i < j
        /\ Opens(i, g)
        /\ Closes(j, g)
        /\ HeightAfter(g, u, j - 1) = HeightAfter(g, u, i)
        /\ \A k \in (i + 1)..(j - 1) : HeightAfter(g, u, k) >= HeightAfter(g, u, i)

\* C22: a closing token that finds the stack of its group empty, and an
\* opening token never popped by the end of the pass, are not marked, with
\* the cursor at them or not; highlight throws nothing and appends the
\* closing <br>; and the brackets after such a token are paired, and marked
\* with the cursor at one of a pair, as they would be without it.
UnbalancedIgnored ==
    op = "highlight" =>
        /\ err = NoError
        /\ children # << >>
        /\ children[Len(children)] = Br
        /\ \A u \in 1..Len(Tokens) :
              (Unmatched(u) \/ Unpopped(u)) =>
                  /\ ~Marked(u)
                  /\ \A i, j \in 1..Len(Tokens) :
                        PopsAfter(u, j, i) =>
                            /\ Pops(j, i)
                            /\ (Marked(i) /\ Marked(j)) <=> (AtCursor(i) \/ AtCursor(j))

\* ")()" with the cursor before the first parenthesis: it is left unmarked,
\* nothing is thrown, and the two that follow are a pair
UnbalancedIgnoredSeen ==
    /\ op = "highlight"
    /\ err = NoError
    /\ types = <<"open", "close">>
    /\ value = <<")", "(", ")">>
    /\ selectionStart = 0
    /\ selectionEnd = 0
    /\ Unmatched(1)
    /\ AtCursor(1)
    /\ ~Marked(1)
    /\ Pops(3, 2)

(***************************************************************************)
(* The units highlight emits (SpecHighlighter).                            *)
(***************************************************************************)
\* the pieces split returns that are neither undefined nor empty, in order
RECURSIVE NonEmptyPieces(_)
NonEmptyPieces(pieces) ==
    IF pieces = << >> THEN << >>
    ELSE IF Head(pieces).defined /\ Head(pieces).text # << >>
         THEN <<Head(pieces).text>> \o NonEmptyPieces(Tail(pieces))
    ELSE NonEmptyPieces(Tail(pieces))

\* the texts can be found in the text one after the other, each starting
\* at or after offset q and no earlier than the one before it
RECURSIVE InTextOrder(_, _, _)
InTextOrder(texts, text, q) ==
    \/ texts = << >>
    \/ \E p \in q..(Len(text) - Len(Head(texts))) :
          /\ SubSeq(text, p + 1, p + Len(Head(texts))) = Head(texts)
          /\ InTextOrder(Tail(texts), text, p)

\* C23: highlight emits one token for each piece of the split that is
\* neither undefined nor empty, in the order of the pieces, which is from
\* left to right in the text, and then one <br>, the only one, as the last
\* child: the children are as many as those pieces plus one, and the <br>
\* alone for the empty text.
UnitsThenMarker ==
    op = "highlight" =>
        LET pieces == NonEmptyPieces(Split(Alternatives(types), value,
                                           HasFlag(Flags(types), "i")))
        IN  /\ Len(children) = Len(pieces) + 1
            /\ children[Len(children)].kind = "br"
            /\ \A i \in 1..Len(pieces) :
                  children[i].kind \in {"text", "span"} /\ children[i].text = pieces[i]
            /\ InTextOrder(pieces, value, 0)
            /\ value = << >> => children = <<Br>>

\* "a()" gave a text node, two spans and the <br>
UnitsThenMarkerSeen ==
    /\ op = "highlight"
    /\ types = <<"open", "close">>
    /\ value = <<"a", "(", ")">>
    /\ Len(children) = 4
    /\ children[1].kind = "text"
    /\ children[2].kind = "span"
    /\ children[3].kind = "span"
    /\ children[4] = Br

(***************************************************************************)
(* highlight called again (SpecHighlighter).                               *)
(***************************************************************************)
\* C24: a highlight call that follows another on the same Highlighter, with
\* the same text and the same selection, leaves the same children: the same
\* texts, classes and selected-bracket marks.
HighlightRepeatable ==
    [][(op = "highlight" /\ op' = "highlight"
        /\ value' = value /\ selectionStart' = selectionStart
        /\ selectionEnd' = selectionEnd /\ types' = types)
       => children' = children]_vars

(***************************************************************************)
(* Editor.edit (SpecEditor).                                               *)
(***************************************************************************)
\* C25: edit(newText) with the selection from s to e leaves the content
\* content[0..s) + newText + content[e..) and both ends of the selection at
\* s + newText.length, and adds the one patch {start: s, oldText:
\* content[s..e), newText} to the history: it is the last entry, the cursor
\* is after it, and before it are the entries that were before the cursor,
\* as many as the limit leaves room for.
EditReplacesSelection ==
    [][op' = "Editor.edit" =>
        LET s == selectionStart
            e == selectionEnd
            newText == patch'.newText
        IN  /\ value' = SubSeq(value, 1, s) \o newText \o SubSeq(value, e + 1, Len(value))
            /\ selectionStart' = s + Len(newText)
            /\ selectionEnd' = s + Len(newText)
            /\ patch' = [start |-> s, oldText |-> SubSeq(value, s + 1, e), newText |-> newText]
            /\ entries' = Append(LastBefore(entries, cursor, Min(cursor, limit - 1)), patch')
            /\ cursor' = Len(entries')]_vars

\* edit('a') with the whole of "ba" selected left "a", the cursor after it,
\* and the patch of the replacement
EditReplacesSelectionSeen ==
    /\ op = "Editor.edit"
    /\ patch = [start |-> 0, oldText |-> <<"b", "a">>, newText |-> <<"a">>]
    /\ value = <<"a">>
    /\ selectionStart = 1
    /\ selectionEnd = 1
    /\ entries[Len(entries)] = patch

(***************************************************************************)
(* The code saved (SpecEditor).                                            *)
(***************************************************************************)
\* C26: after edit, undo, redo and changeSelection of the Editor and after
\* an input event it handled, the string saveCode was given last is the
\* text of the textarea.
SavedCodeIsContent ==
    op \in {"Editor.edit", "Editor.undo", "Editor.redo", "changeSelection", "insertText"} =>
        /\ savedCode.saved
        /\ savedCode.text = value

\* an undo put "ba" back in place of "a", and "ba" was saved
SavedCodeIsContentSeen ==
    /\ op = "Editor.undo"
    /\ acted
    /\ entries = <<[start |-> 0, oldText |-> <<"b", "a">>, newText |-> <<"a">>]>>
    /\ cursor = 0
    /\ value = <<"b", "a">>
    /\ savedCode = [saved |-> TRUE, text |-> <<"b", "a">>]

(***************************************************************************)
(* Undo and redo of what the user typed (SpecEvents).                      *)
(***************************************************************************)
\* C27: an undo right after an input event handleUserEdit recorded (a
\* character typed, Backspace, Delete, each with a selection or without)
\* leaves the text the textarea held before the event, and a redo right
\* after that undo the text it held after the event.
UndoRedoOfEvent ==
    /\ run.phase = "undone" => value = run.before
    /\ run.phase = "redone" => value = run.after

(***************************************************************************)
(* Editor.load (SpecLoad).                                                 *)
(***************************************************************************)
\* C28: when loadCodeHist throws a SyntaxError, or returns data that fails
\* the validation of import, load throws nothing, leaves the history with
\* cursor 0 and no entries, hands saveCodeHist that empty history, and sets
\* the content to what loadCode returns ('' for nothing); any other error
\* of loadCodeHist comes out of load.
LoadResetsOnBadHistory ==
    [][op' = "load" =>
        LET thrown == loaded'.thrown
            code == loaded'.code
        IN  /\ (thrown = "SyntaxError" \/ (thrown = NoError /\ FailsValidation(loaded'.data))) =>
                  /\ err' = NoError
                  /\ cursor' = 0
                  /\ entries' = << >>
                  /\ exported'.held
                  /\ exported'.cursor = 0
                  /\ ExportedEntries' = << >>
                  /\ value' = IF code.saved THEN code.text ELSE << >>
            /\ (thrown # NoError /\ thrown # "SyntaxError") => err' = thrown]_vars

\* load got a history with its cursor too far and the code "ab": nothing
\* thrown, an empty history, saved, and "ab" in the textarea
LoadResetsOnBadHistorySeen ==
    /\ op = "load"
    /\ loaded.data = ObjectOf(Num(4), ArrayOf(<<ItemOf(P1)>>))
    /\ loaded.code = [saved |-> TRUE, text |-> <<"a", "b">>]
    /\ err = NoError
    /\ cursor = 0
    /\ entries = << >>
    /\ exported = ExportedObject(0)
    /\ value = <<"a", "b">>

(***************************************************************************)
(* The depth of undo (SpecDepth).                                          *)
(***************************************************************************)
\* C29: after a row of more adds than the limit, the first limit undos
\* each step the cursor back and reverse, on the buffer, one of the limit
\* newest actions added, the newest first, and every undo after them
\* changes neither the history nor the buffer.
UndoDepthIsLimit ==
    [][(op' = "undo" /\ run.n > limit) =>
        IF run.undone < limit
        THEN LET e == run.added[run.n - run.undone]
             IN  /\ acted'
                 /\ cursor' = cursor - 1
                 /\ entries' = entries
                 /\ value' = Replaced(value, e.start, Len(e.newText), e.oldText)
                 /\ selectionStart' = e.start + Len(e.oldText)
                 /\ selectionEnd' = e.start + Len(e.oldText)
        ELSE /\ ~acted'
             /\ UNCHANGED <<hist, buf>>]_vars

\* limit 2, three adds: the third undo found the cursor at 0 and did nothing
UndoDepthIsLimitSeen ==
    /\ op = "undo"
    /\ ~acted
    /\ limit = 2
    /\ run.n = 3
    /\ run.undone = 3
    /\ cursor = 0
    /\ entries = SubSeq(run.added, 2, 3)

(***************************************************************************)
(* What undo and redo leave alone (SpecCalls).                             *)
(***************************************************************************)
\* C30: undo and redo, whatever the cursor, leave the entries and the limit
\* as they found them.
UndoRedoKeepEntries ==
    [][op' \in {"undo", "redo"} => (entries' = entries /\ limit' = limit)]_vars

\* a redo stepped over the second of two imported entries, which are both
\* still there
UndoRedoKeepEntriesSeen ==
    /\ op = "redo"
    /\ acted
    /\ entries = <<P1, P2>>
    /\ cursor = 2

(***************************************************************************)
(* apply and applyRev as inverses (SpecPair).                              *)
(***************************************************************************)
\* C31: apply and applyRev leave cursor and entries as they are; applyRev
\* after apply of the same action gives back the text of a buffer that held
\* the action's oldText at its start, and apply after applyRev gives back
\* the text of a buffer that held its newText there.
ApplyAndRevAreInverses ==
    [][/\ op' \in {"apply", "applyRev"} => UNCHANGED hist
       /\ (run'.phase = "paired" /\ run'.fits) => value' = run'.before]_vars

\* "a" at offset 1 was replaced by "b" and put back, two entries in the log
ApplyAndRevAreInversesSeen ==
    /\ run.phase = "paired"
    /\ run.fits
    /\ op = "applyRev"
    /\ patch = P2
    /\ run.before = <<"b", "a">>
    /\ value = <<"b", "a">>
    /\ Len(entries) = 2

(***************************************************************************)
(* Bracket groups (SpecHighlighter).                                       *)
(***************************************************************************)
\* C32: a marked closing token has a marked opening token of its own group
\* before it and a marked opening token a marked closing token of its own
\* group after it; and an opening and a closing token of one group with no
\* token of that group between them are both marked when the cursor is at
\* one of them, whatever tokens of other groups lie between.
GroupsAreIndependent ==
    op = "highlight" =>
        \A g \in BracketNames :
            \A i \in 1..Len(Tokens) :
                /\ (Closes(i, g) /\ Marked(i)) =>
                       \E k \in 1..(i - 1) : Opens(k, g) /\ Marked(k)
                /\ (Opens(i, g) /\ Marked(i)) =>
                       \E k \in (i + 1)..Len(Tokens) : Closes(k, g) /\ Marked(k)
                /\ \A j \in (i + 1)..Len(Tokens) :
                       (/\ Opens(i, g)
                        /\ Closes(j, g)
                        /\ \A k \in (i + 1)..(j - 1) : Role(k).name # g
                        /\ AtCursor(i) \/ AtCursor(j)) => (Marked(i) /\ Marked(j))

\* "(A)" with the cursor before the first parenthesis: the block opening
\* between the parentheses is left alone and the parentheses are marked
GroupsAreIndependentSeen ==
    /\ op = "highlight"
    /\ types = <<"open", "close", "begin", "end">>
    /\ value = <<"(", "A", ")">>
    /\ selectionStart = 0
    /\ selectionEnd = 0
    /\ Opens(2, "block")
    /\ Marked(1)
    /\ ~Marked(2)
    /\ Marked(3)

(***************************************************************************)
(* Nested brackets (SpecNested).                                           *)
(***************************************************************************)
\* the opening tokens less the closing tokens of group g among the tokens
\* i to k
RECURSIVE Depth(_, _, _)
Depth(g, i, k) ==
    IF k < i THEN 0
    ELSE Depth(g, i, k - 1)
         + (IF Opens(k, g) THEN 1 ELSE IF Closes(k, g) THEN -1 ELSE 0)

\* j closes what i opened: the first closing token of the group after i
\* with as many closing as opening tokens of the group from i on
Partner(g, i, j) ==
    /\ i < j
    /\ Opens(i, g)
    /\ Closes(j, g)
    /\ Depth(g, i, j) = 0
    /\ \A k \in i..(j - 1) : Depth(g, i, k) > 0

\* every closing token finds an opening token on its stack and none is left
\* at the end
Balanced == \A u \in 1..Len(Tokens) : ~Unmatched(u) /\ ~Unpopped(u)

\* C33: in a highlight pass over a text whose brackets are balanced, with
\* the cursor at an opening token, that token and the token that closes it
\* are marked and no other token is.
NearestEnclosing ==
    op = "highlight" =>
        \A g \in BracketNames :
            \A i \in 1..Len(Tokens) :
                (Balanced /\ Opens(i, g) /\ AtCursor(i)) =>
                    \E j \in (i + 1)..Len(Tokens) :
                        /\ Partner(g, i, j)
                        /\ \A k \in 1..Len(Tokens) : Marked(k) <=> k \in {i, j}

\* "(a(b)c)" with the cursor before the first parenthesis: the first and the
\* last parenthesis are marked, the two within are not
NearestEnclosingSeen ==
    /\ op = "highlight"
    /\ types = <<"open", "close">>
    /\ value = <<"(", "a", "(", "b", ")", "c", ")">>
    /\ selectionStart = 0
    /\ selectionEnd = 0
    /\ Len(Tokens) = 7
    /\ Balanced
    /\ Marked(1)
    /\ ~Marked(3)
    /\ ~Marked(5)
    /\ Marked(7)

(***************************************************************************)
(* The marked pair (SpecNested).                                           *)
(***************************************************************************)
\* the tokens that bear the selected-bracket mark
MarkedTokens == {k \in 1..Len(Tokens) : Marked(k)}

\* how many times the token bears the mark
Marks(k) ==
    Cardinality({n \in 1..Len(Tokens[k].class) : Tokens[k].class[n] = "selected-bracket"})

\* C39: at the end of a highlight pass at most two tokens bear the
\* selected-bracket mark; if any does, they are an opening token and the
\* closing token that popped it; and no token bears the mark twice.
OnePairMarked ==
    op = "highlight" =>
        /\ Cardinality(MarkedTokens) <= 2
        /\ MarkedTokens # {} =>
               \E i, j \in MarkedTokens : Pops(j, i) /\ MarkedTokens = {i, j}
        /\ \A k \in 1..Len(Tokens) : Marks(k) <= 1

\* "(()())" with the cursor before the second parenthesis: of the three
\* pairs the first of the inner two is marked, once, and nothing else
OnePairMarkedSeen ==
    /\ op = "highlight"
    /\ types = <<"open", "close">>
    /\ value = <<"(", "(", ")", "(", ")", ")">>
    /\ selectionStart = 1
    /\ selectionEnd = 1
    /\ Pops(6, 1)
    /\ Pops(5, 4)
    /\ MarkedTokens = {2, 3}
    /\ Marks(2) = 1
    /\ Marks(3) = 1

(***************************************************************************)
(* What highlight replaces and what it leaves (SpecHighlighter).           *)
(***************************************************************************)
\* C40: a highlight call leaves the text and the selection of the textarea
\* as they are; the children it leaves are one for each piece of the text
\* at hand and the <br>, whatever children the target had; and a call that
\* follows another leaves the children that one left.
HighlightReplaces ==
    [][op' = "highlight" =>
          /\ UNCHANGED buf
          /\ Len(children') = Len(Pieces(types, value)) + 1
          /\ op = "highlight" => children' = children]_vars

(***************************************************************************)
(* The bracket keys and Backspace (SpecKeys).                              *)
(***************************************************************************)
\* the log after one add of the action, and no more
OneMore(action) ==
    /\ entries' = AddResult(entries, cursor, action, limit).entries
    /\ cursor' = AddResult(entries, cursor, action, limit).cursor
    /\ entries'[Len(entries')] = action

\* C34: the handler of a bracket key, with the selection from s to e,
\* leaves the text with the pair of the key in the place of the selected
\* text, one action more in the history, which replaces the selected text
\* by the pair at s, and both ends of the selection at s + 1.
BracketKeyInsertsPair ==
    [][op' = "handleBracket" =>
          \E pair \in Pairs :
              /\ value' = SubSeq(value, 1, selectionStart) \o pair
                             \o SubSeq(value, selectionEnd + 1, Len(value))
              /\ OneMore([start |-> selectionStart,
                          oldText |-> SubSeq(value, selectionStart + 1, selectionEnd),
                          newText |-> pair])
              /\ selectionStart' = selectionStart + 1
              /\ selectionEnd' = selectionStart + 1]_vars

\* "[" typed after "b": the text is "b[]" and the cursor is between the two
BracketKeyInsertsPairSeen ==
    /\ op = "handleBracket"
    /\ patch = [start |-> 1, oldText |-> << >>, newText |-> <<"[", "]">>]
    /\ value = <<"b", "[", "]">>
    /\ selectionStart = 2
    /\ selectionEnd = 2
    /\ entries = <<patch>>

\* the cursor, with nothing selected, is between the two of a pair
CursorInPair ==
    /\ selectionStart = selectionEnd
    /\ selectionStart >= 1
    /\ selectionStart < Len(value)
    /\ <<value[selectionStart], value[selectionStart + 1]>> \in Pairs

\* the bracket before the start of the selection and the one after it make
\* a pair
StartInPair ==
    /\ selectionStart >= 1
    /\ selectionStart < Len(value)
    /\ <<value[selectionStart], value[selectionStart + 1]>> \in Pairs

BreaksBefore == {k \in 1..selectionStart : value[k] = "\n"}

\* the place of the last of them, 0 when there is none
LastBreakBefore == IF BreaksBefore = {} THEN 0 ELSE CHOOSE k \in BreaksBefore : \A n \in BreaksBefore : n <= k

\* C36: after an edit, an input event or a change of the selection the line
\* shown is 1 plus the number of line breaks before selectionStart and the
\* column shown is 1 plus the number of characters from the last of those
\* line breaks, or from the start of the text, to selectionStart.
LineAndColumnShown ==
    op \in {"Editor.edit", "insertLineBreak", "deleteContentBackward", "changeSelection"} =>
        /\ display.line = 1 + Cardinality(BreaksBefore)
        /\ display.column = 1 + (selectionStart - LastBreakBefore)

\* the cursor moved to the end of a line break and "b": line 2, column 2
LineAndColumnShownSeen ==
    /\ op = "changeSelection"
    /\ value = <<"\n", "b">>
    /\ selectionStart = 2
    /\ selectionEnd = 2
    /\ display.line = 2
    /\ display.column = 2

(***************************************************************************)
(* The history saved and the history at hand (SpecEditor).                 *)
(***************************************************************************)
\* C37: after edit, undo or redo of the Editor, the object saveCodeHist was
\* given last has the cursor and the entries of the history.
SavedHistoryInSync ==
    (op \in {"Editor.edit", "Editor.undo", "Editor.redo"} /\ exported.held) =>
        /\ exported.cursor = cursor
        /\ ExportedEntries = entries

(***************************************************************************)
(* The textarea and the log (SpecWithinLimit).                             *)
(***************************************************************************)
\* the text with the first n of the entries applied to it in order
RECURSIVE Forward(_, _, _)
Forward(text, es, n) ==
    IF n = 0 THEN text ELSE ApplyValue(es[n], Forward(text, es, n - 1))

\* C38: since a load that left the history empty and the code T0 in the
\* textarea, edit, undo and redo of the Editor with nothing chopped off the
\* log leave in the textarea T0 with the entries before the cursor applied
\* in order, which is T0 when the cursor is 0.
BufferFollowsLog ==
    (loaded.thrown = "SyntaxError" /\ op \in {"load", "Editor.edit", "Editor.undo",
                                              "Editor.redo", "changeSelection"}) =>
        /\ value = Forward(CodeOrEmpty(loaded.code), entries, cursor)
        /\ cursor = 0 => value = CodeOrEmpty(loaded.code)

\* "ab" loaded, the whole of it replaced by "a", "a" inserted before it,
\* and the second edit undone: the textarea holds "a", the first applied
BufferFollowsLogSeen ==
    /\ loaded.thrown = "SyntaxError"
    /\ loaded.code.text = <<"a", "b">>
    /\ op = "Editor.undo"
    /\ acted
    /\ Len(entries) = 2
    /\ cursor = 1
    /\ entries[1] = [start |-> 0, oldText |-> <<"a", "b">>, newText |-> <<"a">>]
    /\ value = <<"a">>

====
